---- MODULE Spec2Model ----
(***************************************************************************)
(* State machine of the sudoku State object of engine/datamodule.c: the    *)
(* cell table ss_grid, the house aggregates ss_houses, the grid-wide       *)
(* aggregates ss_solved / ss_digits / ss_skeys, and the mutations that     *)
(* reach them (constructor, clues view, candidates view, add_candidates,   *)
(* remove_candidates, pickling).                                           *)
(*                                                                         *)
(* A candidate mask (uint16_t, bits 0..15) is written as the set of its    *)
(* set bit positions; x & y is \cap, x | y is \cup, x & ~y is \ .          *)
(* A key is the pair <<x, y>> (row, column).                               *)
(***************************************************************************)
EXTENDS Integers, Sequences, FiniteSets, TLC

\* ------------------------------------------------------------------------
\* Program constants
NUMROWS == 9
GRIDSIZE == 81
ERRORBIT == 32768
UINT16 == 65536
ROWOFFSET == NUMROWS * 2
COLOFFSET == NUMROWS
GROFFSET == 0
\* number of hi_cand_count entries covered by memset(.., 0, sizeof(Py_ssize_t))
MEMSET_ENTRIES == 1

TERMS == 0 .. 8
AllBits == 0 .. 15

\* f as an explicit table, each entry evaluated once
Table(f) == IF f = f THEN f ELSE f

INDEX(x, y) == (x * NUMROWS) + y
ROW(i) == i \div NUMROWS
COL(i) == i % NUMROWS

\* CELL_FILLED: the ERRORBIT, the top bit of the 16-bit value, is clear
CELL_FILLED(grid, x, y) == grid[INDEX(x, y)].ci_value < ERRORBIT

\* CELL_FILLED of the cell with index i
FilledAt(grid, i) == grid[i].ci_value < ERRORBIT

\* ------------------------------------------------------------------------
\* Bounds of the explored inputs
\* largest number of entries of a change dictionary
MaxChange == 2
\* fill() is explored only while no house count exceeds this
MaxCandCount == 9

\* keys the explored calls address
Keys == { <<0, 0>>, <<0, 1>> }
\* clue digits handed to the constructor (9 is outside range(9))
InitDigits == { 0, 9 }
\* digits handed to clues[key] = digit
AssignDigits == { 0, 9 }
\* CandidateSets handed to the candidate mutations
CandSets == { {0}, TERMS }

\* ------------------------------------------------------------------------
\* Configuration (engine.config, default group layout: 3x3 boxes)
default_grconfig ==
    Table([i \in 0 .. (GRIDSIZE - 1) |-> 3 * (ROW(i) \div 3) + (COL(i) \div 3)])

\* default_peers[key][0]: the keys of the box of key, without key
default_peers_box(x, y) ==
    { <<3 * (x \div 3) + a, 3 * (y \div 3) + b>> : a, b \in 0 .. 2 } \ { <<x, y>> }

\* the same, as a table over the cell indexes
default_peers ==
    Table([i \in 0 .. (GRIDSIZE - 1) |-> default_peers_box(ROW(i), COL(i))])

\* ------------------------------------------------------------------------
\* Object memory as PyType_GenericNew leaves it (all zero)
ZeroHouse == [hi_solved |-> 0, hi_cand_count |-> Table([i \in 0 .. (NUMROWS - 1) |-> 0])]

NewObject ==
    [ ss_solved |-> 0,
      ss_digits |-> [i \in 0 .. (NUMROWS - 1) |-> 0],
      ss_grconfig |-> 0,
      ss_skeys |-> {},
      ss_houses |-> [h \in 0 .. (NUMROWS * 3 - 1) |-> ZeroHouse],
      ss_grid |-> [i \in 0 .. (GRIDSIZE - 1) |->
                     [ci_group |-> 0, ci_value |-> 0, ci_candidates |-> {}]] ]

\* set_defaults
set_defaults(grid) ==
    Table([i \in 0 .. (GRIDSIZE - 1) |->
        [grid[i] EXCEPT !.ci_value = ERRORBIT, !.ci_candidates = {}]])

\* set_groups_in_cells: a cell's group is the rank of its grconfig value in
\* the order of first appearance of the values, scanning row-major
FirstSeen(grconfig, v) ==
    CHOOSE i \in 0 .. (GRIDSIZE - 1) :
        /\ grconfig[i] = v
        /\ \A j \in 0 .. (i - 1) : grconfig[j] # v

FoundRank(grconfig) ==
    Table([i \in 0 .. (GRIDSIZE - 1) |->
        Cardinality({ j \in 0 .. (GRIDSIZE - 1) :
                        /\ j = FirstSeen(grconfig, grconfig[j])
                        /\ j < FirstSeen(grconfig, grconfig[i]) })])

default_found == FoundRank(default_grconfig)

set_groups_in_cells(grid, found) ==
    Table([i \in 0 .. (GRIDSIZE - 1) |-> [grid[i] EXCEPT !.ci_group = found[i] + GROFFSET]])

\* CELL_GROUP: the index of the group house of a cell
CELL_GROUP(grid, x, y) == grid[INDEX(x, y)].ci_group

\* house_adjust_solved_up without the group house
house_adjust_solved_up_skips_group(houses, grid, x, y) ==
    LET a == [houses EXCEPT ![x + ROWOFFSET].hi_solved = @ + 1]
    IN  [a EXCEPT ![y + COLOFFSET].hi_solved = @ + 1]

house_adjust_solved_up(houses, grid, x, y) ==
    LET a == [houses EXCEPT ![x + ROWOFFSET].hi_solved = @ + 1]
        b == [a EXCEPT ![y + COLOFFSET].hi_solved = @ + 1]
    IN  [b EXCEPT ![CELL_GROUP(grid, x, y)].hi_solved = @ + 1]

house_adjust_solved_down(houses, grid, x, y) ==
    LET a == [houses EXCEPT ![x + ROWOFFSET].hi_solved = @ - 1]
        b == [a EXCEPT ![y + COLOFFSET].hi_solved = @ - 1]
    IN  [b EXCEPT ![CELL_GROUP(grid, x, y)].hi_solved = @ - 1]

cand_count_up(count, set) ==
    [i \in 0 .. (NUMROWS - 1) |-> IF i \in set THEN count[i] + 1 ELSE count[i]]

house_adjust_cand_count_up(houses, grid, x, y, set) ==
    LET a == [houses EXCEPT ![x + ROWOFFSET].hi_cand_count = cand_count_up(@, set)]
        b == [a EXCEPT ![y + COLOFFSET].hi_cand_count = cand_count_up(@, set)]
    IN  [b EXCEPT ![CELL_GROUP(grid, x, y)].hi_cand_count = cand_count_up(@, set)]

cand_count_down(count, set) ==
    [i \in 0 .. (NUMROWS - 1) |-> IF i \in set THEN count[i] - 1 ELSE count[i]]

house_adjust_cand_count_down(houses, grid, x, y, set) ==
    LET a == [houses EXCEPT ![x + ROWOFFSET].hi_cand_count = cand_count_down(@, set)]
        b == [a EXCEPT ![y + COLOFFSET].hi_cand_count = cand_count_down(@, set)]
    IN  [b EXCEPT ![CELL_GROUP(grid, x, y)].hi_cand_count = cand_count_down(@, set)]

\* find_clues_in_keyset: the bits of the values of the solved keys of keyset
find_clues_in_keyset(grid, keyset) ==
    { grid[INDEX(k[1], k[2])].ci_value : k \in { q \in keyset : CELL_FILLED(grid, q[1], q[2]) } }

\* ------------------------------------------------------------------------
\* fill_in_pencilmarks
\* the bits a cell must not hold: the values of the filled cells of row n
\* other than (n, m), of column m other than (n, m), and of the group peers.
\* filled is the set of the indexes of the filled cells; find_clues_in_keyset
\* passes over the keys that are not filled, so it is handed the filled
\* peers only.
\* notcandidates that does not look at the column of the cell
notcandidates_skips_column(s, filled, n, m) ==
    { s.ss_grid[p].ci_value : p \in { q \in filled : ROW(q) = n /\ COL(q) # m } }
    \cup
    find_clues_in_keyset(s.ss_grid,
        { <<ROW(q), COL(q)>> : q \in filled } \cap default_peers[INDEX(n, m)])

notcandidates(s, filled, n, m) ==
    { s.ss_grid[p].ci_value : p \in { q \in filled : ROW(q) = n /\ COL(q) # m } }
    \cup
    { s.ss_grid[p].ci_value : p \in { q \in filled : COL(q) = m /\ ROW(q) # n } }
    \cup
    find_clues_in_keyset(s.ss_grid,
        { <<ROW(q), COL(q)>> : q \in filled } \cap default_peers[INDEX(n, m)])

\* the memset at the head of fill_in_pencilmarks
fill_memset(houses) ==
    Table([h \in 0 .. (NUMROWS * 3 - 1) |->
        [houses[h] EXCEPT !.hi_cand_count =
            [i \in 0 .. (NUMROWS - 1) |-> IF i < MEMSET_ENTRIES THEN 0 ELSE @[i]]]])

\* the cells house h is adjusted for: those of its row, of its column, or
\* those whose ci_group is h (ci_group is written by set_groups_in_cells
\* alone, from the default layout)
HouseCells ==
    Table([h \in 0 .. (NUMROWS * 3 - 1) |->
        IF h >= ROWOFFSET THEN { INDEX(h - ROWOFFSET, z) : z \in 0 .. (NUMROWS - 1) }
        ELSE IF h >= COLOFFSET THEN { INDEX(z, h - COLOFFSET) : z \in 0 .. (NUMROWS - 1) }
        ELSE { i \in 0 .. (GRIDSIZE - 1) : default_found[i] + GROFFSET = h }])

\* the unsolved cells of house h
OpenCells(grid, h) == { i \in HouseCells[h] : ~FilledAt(grid, i) }

\* For each digit, the number of the cells of cells whose mask in grid holds
\* it: what a run of house_adjust_cand_count_up (or _down) over these cells
\* adds to (takes from) the counts of a house they all lie in. The cells
\* holding every digit are counted once for all digits, those holding none
\* are left out.
Holding(cells, grid) ==
    LET full == { i \in cells : grid[i].ci_candidates = TERMS }
        part == { i \in cells \ full : grid[i].ci_candidates # {} }
        n == Cardinality(full)
    IN  Table([d \in 0 .. (NUMROWS - 1) |->
            n + Cardinality({ i \in part : d \in grid[i].ci_candidates })])

\* The loop over the 81 cells: every unsolved cell gets (~notcandidates) &
\* TERMS and house_adjust_cand_count_up runs once for it, so each count of a
\* house grows by the number of the house's unsolved cells that got the bit.
fill_in_pencilmarks(s) ==
    LET zeroed == fill_memset(s.ss_houses)
        filled == { i \in 0 .. (GRIDSIZE - 1) : FilledAt(s.ss_grid, i) }
        grid == Table([i \in 0 .. (GRIDSIZE - 1) |->
                    IF i \in filled THEN s.ss_grid[i]
                    ELSE [s.ss_grid[i] EXCEPT !.ci_candidates =
                            (AllBits \ notcandidates(s, filled, ROW(i), COL(i))) \cap TERMS]])
    IN  [s EXCEPT
           !.ss_grid = grid,
           !.ss_houses = Table([h \in 0 .. (NUMROWS * 3 - 1) |->
                LET up == Holding(OpenCells(s.ss_grid, h), grid)
                IN  [zeroed[h] EXCEPT !.hi_cand_count =
                        Table([d \in 0 .. (NUMROWS - 1) |-> @[d] + up[d]])]])]

\* ------------------------------------------------------------------------
\* data_State___init___impl; clues is the dictionary as the sequence of its
\* (key, value) items in iteration order
KeyOk(key) == key[1] < NUMROWS /\ key[2] < NUMROWS /\ key[1] >= 0 /\ key[2] >= 0

\* one pass of the loop over the clues, for the item <<key, value>>
init_entry(s, item) ==
    LET key == item[1]
        cl == item[2]
        x == key[1]
        y == key[2]
    IN  IF cl < 0 \/ cl > NUMROWS THEN [s |-> s, err |-> "ValueError"]
        ELSE IF ~KeyOk(key)
             THEN [s |-> [s EXCEPT !.ss_skeys = @ \cup {key}], err |-> "TypeError"]
        ELSE [s |-> [s EXCEPT
                       !.ss_skeys = @ \cup {key},
                       !.ss_grid[INDEX(x, y)].ci_value = cl,
                       !.ss_houses = house_adjust_solved_up(@, s.ss_grid, x, y),
                       \* ss_digits[NUMROWS] is the word after the array: ss_grconfig
                       !.ss_digits = IF cl < NUMROWS THEN [@ EXCEPT ![cl] = @ + 1] ELSE @,
                       !.ss_grconfig = IF cl < NUMROWS THEN @ ELSE @ + 1],
              err |-> "none"]

\* The loop over the items lo..hi of clues, in order, from the outcome r of
\* the items before them; it stops at the first item that raises. The range
\* is run as its two halves one after the other.
RECURSIVE init_loop(_, _, _, _)
init_loop(r, clues, lo, hi) ==
    IF r.err # "none" \/ lo > hi THEN r
    ELSE IF lo = hi THEN init_entry(r.s, clues[lo])
    ELSE LET mid == (lo + hi) \div 2
         IN  init_loop(init_loop(r, clues, lo, mid), clues, mid + 1, hi)

data_State___init___impl(self, clues, dofill) ==
    LET reset == [self EXCEPT
                    !.ss_grconfig = 0,
                    !.ss_skeys = {},
                    !.ss_solved = 0,
                    !.ss_grid = set_groups_in_cells(set_defaults(@), default_found),
                    !.ss_houses = Table([h \in 0 .. (NUMROWS * 3 - 1) |-> ZeroHouse])]
        r == init_loop([s |-> reset, err |-> "none"], clues, 1, Len(clues))
    IN  IF r.err # "none" THEN r
        ELSE LET t == [r.s EXCEPT !.ss_solved = Len(clues)]
             IN  [s |-> IF dofill THEN fill_in_pencilmarks(t) ELSE t, err |-> "none"]

\* ------------------------------------------------------------------------
\* clues view: delete_clue, assign_clue, data_clues_ass_sub
\* delete_clue without handing the kept mask back to the houses
delete_clue_keeps_counts(s, key) ==
    LET x == key[1]
        y == key[2]
    IN  IF ~KeyOk(key) THEN [s |-> s, err |-> "TypeError"]
        ELSE IF ~CELL_FILLED(s.ss_grid, x, y) THEN [s |-> s, err |-> "KeyError"]
        ELSE LET cl == s.ss_grid[INDEX(x, y)].ci_value
             IN  [s |-> [s EXCEPT
                          !.ss_skeys = @ \ {key},
                          !.ss_digits = IF cl < NUMROWS THEN [@ EXCEPT ![cl] = @ - 1] ELSE @,
                          !.ss_grconfig = IF cl < NUMROWS THEN @ ELSE @ - 1,
                          !.ss_houses = house_adjust_solved_down(@, s.ss_grid, x, y),
                          !.ss_grid[INDEX(x, y)].ci_value = (-1) % UINT16,
                          !.ss_solved = @ - 1],
                  err |-> "none"]

delete_clue(s, key) ==
    LET x == key[1]
        y == key[2]
    IN  IF ~KeyOk(key) THEN [s |-> s, err |-> "TypeError"]
        ELSE IF ~CELL_FILLED(s.ss_grid, x, y) THEN [s |-> s, err |-> "KeyError"]
        ELSE LET cl == s.ss_grid[INDEX(x, y)].ci_value
             IN  [s |-> [s EXCEPT
                          !.ss_skeys = @ \ {key},
                          !.ss_digits = IF cl < NUMROWS THEN [@ EXCEPT ![cl] = @ - 1] ELSE @,
                          !.ss_grconfig = IF cl < NUMROWS THEN @ ELSE @ - 1,
                          !.ss_houses = house_adjust_cand_count_up(
                                            house_adjust_solved_down(@, s.ss_grid, x, y),
                                            s.ss_grid, x, y, s.ss_grid[INDEX(x, y)].ci_candidates),
                          !.ss_grid[INDEX(x, y)].ci_value = (-1) % UINT16,
                          !.ss_solved = @ - 1],
                  err |-> "none"]

\* assign_clue clearing the mask of the cell it solves
assign_clue_drops_mask(s, key, digit) ==
    LET x == key[1]
        y == key[2]
    IN  IF ~KeyOk(key) THEN [s |-> s, err |-> "TypeError"]
        ELSE IF CELL_FILLED(s.ss_grid, x, y) THEN [s |-> s, err |-> "KeyError"]
        ELSE [s |-> [s EXCEPT
                      !.ss_skeys = @ \cup {key},
                      !.ss_houses = house_adjust_cand_count_down(
                                        house_adjust_solved_up(@, s.ss_grid, x, y),
                                        s.ss_grid, x, y, s.ss_grid[INDEX(x, y)].ci_candidates),
                      !.ss_grid[INDEX(x, y)] = [@ EXCEPT !.ci_value = digit % UINT16,
                                                         !.ci_candidates = {}],
                      !.ss_solved = @ + 1,
                      !.ss_digits[digit] = @ + 1],
              err |-> "none"]

assign_clue(s, key, digit) ==
    LET x == key[1]
        y == key[2]
    IN  IF ~KeyOk(key) THEN [s |-> s, err |-> "TypeError"]
        ELSE IF CELL_FILLED(s.ss_grid, x, y) THEN [s |-> s, err |-> "KeyError"]
        ELSE [s |-> [s EXCEPT
                      !.ss_skeys = @ \cup {key},
                      !.ss_houses = house_adjust_cand_count_down(
                                        house_adjust_solved_up(@, s.ss_grid, x, y),
                                        s.ss_grid, x, y, s.ss_grid[INDEX(x, y)].ci_candidates),
                      !.ss_grid[INDEX(x, y)].ci_value = digit % UINT16,
                      !.ss_solved = @ + 1,
                      !.ss_digits[digit] = @ + 1],
              err |-> "none"]

\* value is <<>> for a deletion (NULL) and <<digit>> for an assignment
\* data_clues_ass_sub that looks at the range of the digit after the clue
\* has been assigned
data_clues_ass_sub_checks_digit_last(s, key, value) ==
    IF Len(value) = 0 THEN delete_clue(s, key)
    ELSE LET r == assign_clue(s, key, value[1] % NUMROWS)
         IN  IF r.err = "none" /\ (value[1] < 0 \/ value[1] >= NUMROWS)
             THEN [s |-> r.s, err |-> "ValueError"]
             ELSE r

data_clues_ass_sub(s, key, value) ==
    IF Len(value) = 0 THEN delete_clue(s, key)
    ELSE IF value[1] < 0 \/ value[1] >= NUMROWS THEN [s |-> s, err |-> "ValueError"]
    ELSE assign_clue(s, key, value[1])

\* ------------------------------------------------------------------------
\* add_candidates, remove_candidates; change is the dictionary as the
\* sequence of its (key, CandidateSet) items in iteration order
\* add_entry without the adjustment for the bits already present
add_entry_counts_present(s, x, y, add_set) ==
    [s EXCEPT
       !.ss_houses = house_adjust_cand_count_up(@, s.ss_grid, x, y, add_set),
       !.ss_grid[INDEX(x, y)].ci_candidates = @ \cup add_set]

\* the body of the loop of add_candidates for one entry on an unsolved cell
add_entry(s, x, y, add_set) ==
    LET old_set == s.ss_grid[INDEX(x, y)].ci_candidates
        intersection == add_set \cap old_set
        down == IF intersection # {}
                THEN house_adjust_cand_count_down(s.ss_houses, s.ss_grid, x, y, intersection)
                ELSE s.ss_houses
    IN  [s EXCEPT
           !.ss_houses = house_adjust_cand_count_up(down, s.ss_grid, x, y, add_set),
           !.ss_grid[INDEX(x, y)].ci_candidates = @ \cup add_set]

\* add_loop passing over an entry on a solved cell and going on with the
\* entries after it
RECURSIVE add_loop_passes_solved(_, _, _)
add_loop_passes_solved(s, change, i) ==
    IF i > Len(change) THEN [s |-> s, err |-> "none"]
    ELSE LET key == change[i][1]
             x == key[1]
             y == key[2]
         IN  IF ~KeyOk(key) THEN [s |-> s, err |-> "TypeError"]
             ELSE IF CELL_FILLED(s.ss_grid, x, y) THEN add_loop_passes_solved(s, change, i + 1)
             ELSE add_loop_passes_solved(add_entry(s, x, y, change[i][2]), change, i + 1)

RECURSIVE add_loop(_, _, _)
add_loop(s, change, i) ==
    IF i > Len(change) THEN [s |-> s, err |-> "none"]
    ELSE LET key == change[i][1]
             x == key[1]
             y == key[2]
         IN  IF ~KeyOk(key) THEN [s |-> s, err |-> "TypeError"]
             ELSE IF CELL_FILLED(s.ss_grid, x, y) THEN [s |-> s, err |-> "KeyError"]
             ELSE add_loop(add_entry(s, x, y, change[i][2]), change, i + 1)

data_State_add_candidates(s, change) ==
    LET r == add_loop(s, change, 1)
    IN  [s |-> r.s, err |-> r.err, rkey |-> <<>>]

\* remove_entry without the adjustment for the bits that are absent
remove_entry_counts_absent(s, x, y, remove_set) ==
    [s EXCEPT
       !.ss_houses = house_adjust_cand_count_down(@, s.ss_grid, x, y, remove_set),
       !.ss_grid[INDEX(x, y)].ci_candidates = @ \ remove_set]

\* the body of the loop of remove_candidates for one entry on an unsolved cell
remove_entry(s, x, y, remove_set) ==
    LET old_set == s.ss_grid[INDEX(x, y)].ci_candidates
        not_subset == remove_set \ (remove_set \cap old_set)
        up == IF not_subset # {}
              THEN house_adjust_cand_count_up(s.ss_houses, s.ss_grid, x, y, not_subset)
              ELSE s.ss_houses
    IN  [s EXCEPT
           !.ss_houses = house_adjust_cand_count_down(up, s.ss_grid, x, y, remove_set),
           !.ss_grid[INDEX(x, y)].ci_candidates = @ \ remove_set]

\* remove_loop leaving the loop at the first entry that empties its cell
RECURSIVE remove_loop_stops_at_empty(_, _, _, _)
remove_loop_stops_at_empty(s, change, i, raise) ==
    IF i > Len(change) \/ raise # <<>> THEN [s |-> s, err |-> "none", raise |-> raise]
    ELSE LET key == change[i][1]
             x == key[1]
             y == key[2]
         IN  IF ~KeyOk(key) THEN [s |-> s, err |-> "TypeError", raise |-> raise]
             ELSE IF CELL_FILLED(s.ss_grid, x, y) THEN [s |-> s, err |-> "KeyError", raise |-> raise]
             ELSE LET t == remove_entry(s, x, y, change[i][2])
                  IN  remove_loop_stops_at_empty(t, change, i + 1,
                        IF t.ss_grid[INDEX(x, y)].ci_candidates = {} THEN <<x, y>> ELSE raise)

\* raise is <<>> while no cell was emptied, else <<rx, ry>>
RECURSIVE remove_loop(_, _, _, _)
remove_loop(s, change, i, raise) ==
    IF i > Len(change) THEN [s |-> s, err |-> "none", raise |-> raise]
    ELSE LET key == change[i][1]
             x == key[1]
             y == key[2]
         IN  IF ~KeyOk(key) THEN [s |-> s, err |-> "TypeError", raise |-> raise]
             ELSE IF CELL_FILLED(s.ss_grid, x, y) THEN [s |-> s, err |-> "KeyError", raise |-> raise]
             ELSE LET t == remove_entry(s, x, y, change[i][2])
                  IN  remove_loop(t, change, i + 1,
                        IF t.ss_grid[INDEX(x, y)].ci_candidates = {} THEN <<x, y>> ELSE raise)

\* remove_candidates leaving the table as it found it when a cell would
\* end with no candidate
data_State_remove_candidates_untouched_on_raise(s, change) ==
    LET r == remove_loop(s, change, 1, <<>>)
    IN  IF r.err # "none" THEN [s |-> r.s, err |-> r.err, rkey |-> <<>>]
        ELSE IF r.raise # <<>> THEN [s |-> s, err |-> "ContradictionError", rkey |-> r.raise]
        ELSE [s |-> r.s, err |-> "none", rkey |-> <<>>]

data_State_remove_candidates(s, change) ==
    LET r == remove_loop(s, change, 1, <<>>)
    IN  IF r.err # "none" THEN [s |-> r.s, err |-> r.err, rkey |-> <<>>]
        ELSE IF r.raise # <<>> THEN [s |-> r.s, err |-> "ContradictionError", rkey |-> r.raise]
        ELSE [s |-> r.s, err |-> "none", rkey |-> <<>>]

\* ------------------------------------------------------------------------
\* candidates view
\* cands is <<>> for a deletion (NULL) and <<set>> for an assignment
\* data_candidates_ass_sub that does not take the old mask out of the houses
data_candidates_ass_sub_keeps_old(s, key, cands) ==
    LET x == key[1]
        y == key[2]
        new_set == IF Len(cands) = 0 THEN {} ELSE cands[1]
    IN  IF ~KeyOk(key) THEN [s |-> s, err |-> "TypeError"]
        ELSE IF CELL_FILLED(s.ss_grid, x, y) THEN [s |-> s, err |-> "KeyError"]
        ELSE [s |-> [s EXCEPT
                       !.ss_houses = house_adjust_cand_count_up(@, s.ss_grid, x, y, new_set),
                       !.ss_grid[INDEX(x, y)].ci_candidates = new_set],
              err |-> "none"]

data_candidates_ass_sub(s, key, cands) ==
    LET x == key[1]
        y == key[2]
        new_set == IF Len(cands) = 0 THEN {} ELSE cands[1]
    IN  IF ~KeyOk(key) THEN [s |-> s, err |-> "TypeError"]
        ELSE IF CELL_FILLED(s.ss_grid, x, y) THEN [s |-> s, err |-> "KeyError"]
        ELSE LET old_set == s.ss_grid[INDEX(x, y)].ci_candidates
             IN  [s |-> [s EXCEPT
                          !.ss_houses = house_adjust_cand_count_up(
                                            house_adjust_cand_count_down(@, s.ss_grid, x, y, old_set),
                                            s.ss_grid, x, y, new_set),
                          !.ss_grid[INDEX(x, y)].ci_candidates = new_set],
                  err |-> "none"]

\* candidates.fill() clearing the whole house_info of every house, its
\* solved count included, before the refill
candidates_fill_clears_houses(s) ==
    LET r == fill_in_pencilmarks(s)
    IN  [r EXCEPT !.ss_houses =
            Table([h \in 0 .. (NUMROWS * 3 - 1) |-> [@[h] EXCEPT !.hi_solved = 0]])]

data_state_candidates_fill_impl(s) == fill_in_pencilmarks(s)

\* candidates.clear() that takes the masks of the filled cells out of the
\* houses as well
data_state_candidates_clear_impl_counts_filled(s) ==
    [s EXCEPT
       !.ss_grid = Table([i \in 0 .. (GRIDSIZE - 1) |-> [@[i] EXCEPT !.ci_candidates = {}]]),
       !.ss_houses = Table([h \in 0 .. (NUMROWS * 3 - 1) |->
            LET down == Holding(HouseCells[h], s.ss_grid)
            IN  [@[h] EXCEPT !.hi_cand_count =
                    Table([d \in 0 .. (NUMROWS - 1) |-> @[d] - down[d]])]])]

\* The loop over the 81 cells: a cell with set > 0 is zeroed, and
\* house_adjust_cand_count_down runs for it when it is not filled, so each
\* count of a house drops by the number of the house's unsolved cells that
\* held the bit.
data_state_candidates_clear_impl(s) ==
    [s EXCEPT
       !.ss_grid = Table([i \in 0 .. (GRIDSIZE - 1) |-> [@[i] EXCEPT !.ci_candidates = {}]]),
       !.ss_houses = Table([h \in 0 .. (NUMROWS * 3 - 1) |->
            LET down == Holding(OpenCells(s.ss_grid, h), s.ss_grid)
            IN  [@[h] EXCEPT !.hi_cand_count =
                    Table([d \in 0 .. (NUMROWS - 1) |-> @[d] - down[d]])]])]

\* candidate_in_houses(key, cand): the counts of cand in the cell's group,
\* column and row houses, in this order
data_State_candidate_in_houses_impl(s, key, cand) ==
    IF cand < 0 \/ cand >= NUMROWS THEN [value |-> <<>>, err |-> "ValueError"]
    ELSE IF ~KeyOk(key) THEN [value |-> <<>>, err |-> "TypeError"]
    ELSE LET x == key[1]
             y == key[2]
             g == s.ss_houses[CELL_GROUP(s.ss_grid, x, y)].hi_cand_count[cand]
             c == s.ss_houses[y + COLOFFSET].hi_cand_count[cand]
             r == s.ss_houses[x + ROWOFFSET].hi_cand_count[cand]
         IN  [value |-> << <<g, c, r>> >>, err |-> "none"]

\* candidates_from_house(house): the nine counts of the house as a tuple
data_State_candidates_from_house_impl(s, house) ==
    IF house < 0 \/ house >= 27 THEN [value |-> <<>>, err |-> "ValueError"]
    ELSE LET cands_count == s.ss_houses[house].hi_cand_count
         IN  [value |-> << [i \in 1 .. NUMROWS |-> cands_count[i - 1]] >>, err |-> "none"]

\* len(state.candidates) that passes over the unsolved cells left with no
\* candidate
data_candidates_length_nonempty(s) ==
    Cardinality({ i \in 0 .. (GRIDSIZE - 1) :
                    ~FilledAt(s.ss_grid, i) /\ s.ss_grid[i].ci_candidates # {} })

\* len(state.candidates) and len(state.clues)
data_candidates_length(s) == GRIDSIZE - s.ss_solved

data_clues_length(s) == s.ss_solved

\* clues view lookup: <<digit>>, or the exception
data_clues_subscript(s, key) ==
    IF ~KeyOk(key) THEN [value |-> <<>>, err |-> "TypeError"]
    ELSE IF ~CELL_FILLED(s.ss_grid, key[1], key[2]) THEN [value |-> <<>>, err |-> "KeyError"]
    ELSE [value |-> <<s.ss_grid[INDEX(key[1], key[2])].ci_value>>, err |-> "none"]

\* a candidates view lookup that fails on a solved cell only when its mask
\* is empty
candidates_subscript_by_mask(s, key) ==
    IF ~KeyOk(key) THEN [value |-> <<>>, err |-> "TypeError"]
    ELSE IF /\ CELL_FILLED(s.ss_grid, key[1], key[2])
            /\ s.ss_grid[INDEX(key[1], key[2])].ci_candidates = {}
         THEN [value |-> <<>>, err |-> "KeyError"]
    ELSE [value |-> <<s.ss_grid[INDEX(key[1], key[2])].ci_candidates>>, err |-> "none"]

\* candidates view lookup: <<mask>>, or the exception
data_candidates_subscript(s, key) ==
    IF ~KeyOk(key) THEN [value |-> <<>>, err |-> "TypeError"]
    ELSE IF CELL_FILLED(s.ss_grid, key[1], key[2]) THEN [value |-> <<>>, err |-> "KeyError"]
    ELSE [value |-> <<s.ss_grid[INDEX(key[1], key[2])].ci_candidates>>, err |-> "none"]

\* ------------------------------------------------------------------------
\* getters
data_State_num_remaining_getter(s) == GRIDSIZE - s.ss_solved

data_State_num_values_getter(s) == [i \in 0 .. (NUMROWS - 1) |-> s.ss_digits[i]]

\* ------------------------------------------------------------------------
\* pickling: build_dict, __reduce__, __setstate__
\* The items of the dictionary in insertion order: the cells the switch
\* keeps, in the order of the loops (i outer, j inner).
build_dict(s, wd, hidden) ==
    LET keeps(i) ==
            IF wd = "CLUES" THEN CELL_FILLED(s.ss_grid, ROW(i), COL(i))
            ELSE \/ ~CELL_FILLED(s.ss_grid, ROW(i), COL(i))
                 \/ (hidden /\ s.ss_grid[i].ci_candidates # {})
        kept == { i \in 0 .. (GRIDSIZE - 1) : keeps(i) }
        nth(k) == CHOOSE i \in kept : Cardinality({ j \in kept : j < i }) = k - 1
    IN  Table([k \in 1 .. Cardinality(kept) |->
            LET i == nth(k)
            IN  << <<ROW(i), COL(i)>>,
                   IF wd = "CLUES" THEN s.ss_grid[i].ci_value
                   ELSE s.ss_grid[i].ci_candidates >>])

\* the reduction: constructor arguments (clues, dofill, grconfig) and the
\* candidates of the state tuple; grconfig is <<>> for None
data_State___reduce___impl(s) ==
    [ clues |-> build_dict(s, "CLUES", FALSE),
      dofill |-> FALSE,
      grconfig |-> IF s.ss_grconfig = 0 THEN <<>> ELSE <<s.ss_grconfig>>,
      cands |-> build_dict(s, "CANDS", TRUE) ]

\* The loop over the items of cands (a dictionary: its keys are distinct):
\* the items before the first bad key are applied, each sets the mask of its
\* cell and runs house_adjust_cand_count_up when the cell is not filled.
data_State___setstate__(s, cands) ==
    LET bad == { k \in 1 .. Len(cands) : ~KeyOk(cands[k][1]) }
        n == IF bad = {} THEN Len(cands)
             ELSE (CHOOSE k \in bad : \A q \in bad : k <= q) - 1
        item == Table([i \in 0 .. (GRIDSIZE - 1) |->
                    { k \in 1 .. n : INDEX(cands[k][1][1], cands[k][1][2]) = i }])
        set == Table([i \in 0 .. (GRIDSIZE - 1) |->
                    IF item[i] = {} THEN <<>> ELSE <<cands[CHOOSE k \in item[i] : TRUE][2]>>])
    IN  [s |-> [s EXCEPT
                  !.ss_grid = Table([i \in 0 .. (GRIDSIZE - 1) |->
                        IF set[i] = <<>> THEN @[i]
                        ELSE [@[i] EXCEPT !.ci_candidates = set[i][1]]]),
                  !.ss_houses = Table([h \in 0 .. (NUMROWS * 3 - 1) |->
                        LET open == { i \in OpenCells(s.ss_grid, h) : set[i] # <<>> }
                        IN  [@[h] EXCEPT !.hi_cand_count =
                                Table([d \in 0 .. (NUMROWS - 1) |->
                                    @[d] + Cardinality({ i \in open : d \in set[i][1] })])]])],
         err |-> IF bad = {} THEN "none" ELSE "TypeError"]

\* ------------------------------------------------------------------------
\* The State object and the last call that acted on it
\* ss_*: the fields of the State object; last: the last call that acted;
\* ki: the state_iterator object in use (<<>> when there is none, else
\* <<its fields>>); ki_log: what that iterator has been asked and has yielded
VARIABLES ss_solved, ss_digits, ss_grconfig, ss_skeys, ss_houses, ss_grid, last,
          ki, ki_log, ss_movehook, cs, cs_iter, cs_log

vars == <<ss_solved, ss_digits, ss_grconfig, ss_skeys, ss_houses, ss_grid, last, ki, ki_log,
          ss_movehook, cs, cs_iter, cs_log>>

\* no iterator has been asked for
NoLog == [order |-> "none", count |-> 0, keys |-> <<>>, stopped |-> FALSE]

\* no CandidateSet is under observation
NoSets == cs = <<>> /\ cs_iter = <<>> /\ cs_log = <<>>

Self ==
    [ ss_solved |-> ss_solved, ss_digits |-> ss_digits, ss_grconfig |-> ss_grconfig,
      ss_skeys |-> ss_skeys, ss_houses |-> ss_houses, ss_grid |-> ss_grid ]

Becomes(s) ==
    /\ ss_solved' = s.ss_solved
    /\ ss_digits' = s.ss_digits
    /\ ss_grconfig' = s.ss_grconfig
    /\ ss_skeys' = s.ss_skeys
    /\ ss_houses' = s.ss_houses
    /\ ss_grid' = s.ss_grid
    /\ UNCHANGED <<ki, ki_log, ss_movehook, cs, cs_iter, cs_log>>

\* the record of a call: its name, the exception it raised and the key a
\* ContradictionError names
Call(op, err, rkey) == [op |-> op, err |-> err, rkey |-> rkey]

\* A call that is rejected before it has changed anything returns with the
\* object as it was: a stuttering step. The calls that are steps are those
\* that ran to their end (ContradictionError is raised after the loop) and
\* those that failed after a part of their work.
Applied(r) == r.err \in { "none", "ContradictionError" } \/ r.s # Self

\* dictionaries with at most n items over the keys ks and the values vs, as
\* item sequences in every iteration order
RECURSIVE Dicts(_, _, _)
Dicts(ks, vs, n) ==
    IF n = 0 THEN { <<>> }
    ELSE LET shorter == Dicts(ks, vs, n - 1)
         IN  shorter \cup
             { Append(d, <<k, v>>) :
                 d \in { e \in shorter : Len(e) = n - 1 },
                 k \in ks, v \in vs }

DistinctKeys(d) == \A i, j \in 1 .. Len(d) : i # j => d[i][1] # d[j][1]

ChangeDicts == { d \in Dicts(Keys, CandSets, MaxChange) : DistinctKeys(d) /\ Len(d) > 0 }

\* clue dictionaries of the constructor, items in row-major key order
ClueDicts ==
    { d \in Dicts(Keys, InitDigits, Cardinality(Keys)) :
        \A i \in 1 .. (Len(d) - 1) :
            INDEX(d[i][1][1], d[i][1][2]) < INDEX(d[i + 1][1][1], d[i + 1][1][2]) }

Init ==
    \E clues \in ClueDicts, dofill \in BOOLEAN :
        LET r == data_State___init___impl(NewObject, clues, dofill)
        IN  /\ r.err = "none"
            /\ ss_solved = r.s.ss_solved
            /\ ss_digits = r.s.ss_digits
            /\ ss_grconfig = r.s.ss_grconfig
            /\ ss_skeys = r.s.ss_skeys
            /\ ss_houses = r.s.ss_houses
            /\ ss_grid = r.s.ss_grid
            /\ last = Call("__init__", "none", <<>>)
            /\ ki = <<>>
            /\ ki_log = NoLog
            /\ ss_movehook = <<>>
            /\ NoSets

\* the calls are explored while no house count has passed MaxCandCount
CountsExplored ==
    \A h \in 0 .. (NUMROWS * 3 - 1) :
        LET count == ss_houses[h].hi_cand_count
        IN  \A i \in 0 .. (NUMROWS - 1) : count[i] <= MaxCandCount

CluesAssign ==
    /\ CountsExplored
    /\ \E key \in Keys, digit \in AssignDigits :
        LET r == data_clues_ass_sub(Self, key, <<digit>>)
        IN  /\ Applied(r)
            /\ Becomes(r.s)
            /\ last' = Call("clues_setitem", r.err, <<>>)

CluesDelete ==
    /\ CountsExplored
    /\ \E key \in Keys :
        LET r == data_clues_ass_sub(Self, key, <<>>)
        IN  /\ Applied(r)
            /\ Becomes(r.s)
            /\ last' = Call("clues_delitem", r.err, <<>>)

AddCandidates ==
    /\ CountsExplored
    /\ \E change \in ChangeDicts :
        LET r == data_State_add_candidates(Self, change)
        IN  /\ Applied(r)
            /\ Becomes(r.s)
            /\ last' = Call("add_candidates", r.err, r.rkey)

RemoveCandidates ==
    /\ CountsExplored
    /\ \E change \in ChangeDicts :
        LET r == data_State_remove_candidates(Self, change)
        IN  /\ Applied(r)
            /\ Becomes(r.s)
            /\ last' = Call("remove_candidates", r.err, r.rkey)

CandidatesAssign ==
    /\ CountsExplored
    /\ \E key \in Keys, set \in CandSets :
        LET r == data_candidates_ass_sub(Self, key, <<set>>)
        IN  /\ Applied(r)
            /\ Becomes(r.s)
            /\ last' = Call("candidates_setitem", r.err, <<>>)

CandidatesDelete ==
    /\ CountsExplored
    /\ \E key \in Keys :
        LET r == data_candidates_ass_sub(Self, key, <<>>)
        IN  /\ Applied(r)
            /\ Becomes(r.s)
            /\ last' = Call("candidates_delitem", r.err, <<>>)

CandidatesClear ==
    /\ CountsExplored
    /\ Becomes(data_state_candidates_clear_impl(Self))
    /\ last' = Call("candidates_clear", "none", <<>>)

CandidatesFill ==
    /\ CountsExplored
    /\ Becomes(data_state_candidates_fill_impl(Self))
    /\ last' = Call("candidates_fill", "none", <<>>)

Next ==
    \/ CluesAssign
    \/ CluesDelete
    \/ AddCandidates
    \/ RemoveCandidates
    \/ CandidatesAssign
    \/ CandidatesDelete
    \/ CandidatesClear
    \/ CandidatesFill

Spec == Init /\ [][Next]_vars

\* ------------------------------------------------------------------------
\* What the specification says of a state, stated without the stored
\* aggregates: houses 0..8 are the boxes, 9..17 the columns, 18..26 the rows
Houses == 0 .. (NUMROWS * 3 - 1)
Cells == 0 .. (GRIDSIZE - 1)

BoxOf(x, y) == 3 * (x \div 3) + (y \div 3)

\* the three houses a cell lies in
KeyHouses(key) == { BoxOf(key[1], key[2]), NUMROWS + key[2], 2 * NUMROWS + key[1] }

\* the cells lying in each house
HouseMembers ==
    Table([h \in Houses |-> { i \in Cells : h \in KeyHouses(<<ROW(i), COL(i)>>) }])

Solved(s, i) == FilledAt(s.ss_grid, i)

KeySolved(s, key) == CELL_FILLED(s.ss_grid, key[1], key[2])

MaskAt(s, key) == s.ss_grid[INDEX(key[1], key[2])].ci_candidates

\* what is observable of a cell: solved or not, its digit, its mask
CellView(s, i) ==
    [ solved |-> Solved(s, i),
      digit |-> IF Solved(s, i) THEN s.ss_grid[i].ci_value ELSE -1,
      cands |-> s.ss_grid[i].ci_candidates ]

\* equality on the cell table, the house aggregates, the grid aggregates
\* and the solved keys
SameState(s, t) ==
    /\ \A i \in Cells : CellView(s, i) = CellView(t, i)
    /\ s.ss_houses = t.ss_houses
    /\ s.ss_solved = t.ss_solved
    /\ s.ss_digits = t.ss_digits
    /\ s.ss_skeys = t.ss_skeys

RECURSIVE SumTo(_, _)
SumTo(f, n) == IF n < 0 THEN 0 ELSE f[n] + SumTo(f, n - 1)

Last(S) == CHOOSE m \in S : \A n \in S : n <= m

\* the calls every reachable state is probed with
ProbeChanges == ChangeDicts

ProbeDigits == { 0, NUMROWS - 1 }

\* every entry of change addresses an unsolved cell
OnUnsolved(s, change) == \A i \in 1 .. Len(change) : ~KeySolved(s, change[i][1])

\* unpickling: the constructor on the reduction's arguments, then
\* __setstate__ on its candidates
Restored(s) ==
    LET red == data_State___reduce___impl(s)
        made == data_State___init___impl(NewObject, red.clues, red.dofill)
    IN  IF made.err # "none" THEN made
        ELSE data_State___setstate__(made.s, red.cands)

\* ------------------------------------------------------------------------
\* C1: in every reachable state, for every house h and digit d in 0..8, the
\* stored cand_count[d] of h is the number of unsolved cells lying in h whose
\* candidate mask contains d.
C1_CandCountIsRecount ==
    \A h \in Houses :
        LET open == { i \in HouseMembers[h] : ~Solved(Self, i) }
        IN  \A d \in TERMS :
                ss_houses[h].hi_cand_count[d] =
                    Cardinality({ i \in open : d \in ss_grid[i].ci_candidates })

\* C2: in every reachable state, sum(digit_count[0..8]) = solved_total =
\* |solved_keys| = 81 - num_remaining, and each equals the number of cells
\* whose value field marks them solved.
C2_SolvedTotalsAgree ==
    LET solved_cells == Cardinality({ i \in Cells : Solved(Self, i) })
    IN  /\ SumTo(data_State_num_values_getter(Self), NUMROWS - 1) = ss_solved
        /\ ss_solved = Cardinality(ss_skeys)
        /\ ss_solved = GRIDSIZE - data_State_num_remaining_getter(Self)
        /\ ss_solved = solved_cells

\* C3: in every reachable state the stored solved_count of every house is the
\* number of solved cells lying in it, and a clue assignment (deletion) that
\* succeeds changes the solved_count of exactly the row, the column and the
\* box of its cell, each by +1 (-1).
C3_SolvedCountIsRecount ==
    /\ \A h \in Houses :
          ss_houses[h].hi_solved =
              Cardinality({ i \in HouseMembers[h] : Solved(Self, i) })
    /\ \A key \in Keys :
          LET three == KeyHouses(key)
          IN  /\ \A digit \in ProbeDigits :
                    LET r == data_clues_ass_sub(Self, key, <<digit>>)
                    IN  r.err = "none" =>
                          \A h \in Houses :
                              r.s.ss_houses[h].hi_solved =
                                  ss_houses[h].hi_solved + (IF h \in three THEN 1 ELSE 0)
              /\ LET r == data_clues_ass_sub(Self, key, <<>>)
                 IN  r.err = "none" =>
                       \A h \in Houses :
                           r.s.ss_houses[h].hi_solved =
                               ss_houses[h].hi_solved - (IF h \in three THEN 1 ELSE 0)

\* a clue assignment has made row 0 and box 0 hold two solved cells
C3_Witness ==
    /\ last.op = "clues_setitem"
    /\ last.err = "none"
    /\ ss_houses[2 * NUMROWS].hi_solved = 2
    /\ ss_houses[0].hi_solved = 2
    /\ ss_houses[NUMROWS].hi_solved = 1

\* C4: remove_candidates over unsolved coordinates processes every entry,
\* also after an entry has emptied its cell (every addressed mask ends as
\* old \ rem: nothing is rolled back); it fails with ContradictionError
\* exactly when some entry leaves its cell empty, and then names the last
\* such coordinate in iteration order.
C4_RemoveContradiction ==
    \A change \in ProbeChanges :
        OnUnsolved(Self, change) =>
            LET r == data_State_remove_candidates(Self, change)
                emptied == { i \in 1 .. Len(change) :
                               MaskAt(Self, change[i][1]) \ change[i][2] = {} }
            IN  /\ \A i \in 1 .. Len(change) :
                      MaskAt(r.s, change[i][1]) = MaskAt(Self, change[i][1]) \ change[i][2]
                /\ IF emptied = {} THEN r.err = "none"
                   ELSE /\ r.err = "ContradictionError"
                        /\ r.rkey = change[Last(emptied)][1]

\* remove_candidates has failed naming (0, 0) on a filled grid and has left
\* both addressed cells empty
C4_Witness ==
    /\ last.op = "remove_candidates"
    /\ last.err = "ContradictionError"
    /\ last.rkey = <<0, 0>>
    /\ \A key \in Keys : ~KeySolved(Self, key) /\ MaskAt(Self, key) = {}
    /\ MaskAt(Self, <<0, 2>>) = TERMS

\* C5: add_candidates over unsolved coordinates succeeds, every addressed
\* mask becomes old | add, every house's cand_count[d] grows by the number
\* of entries whose cell lies in the house and for which d is in add \ old
\* (by 0 for every other d and house); when every add is within old the
\* state is unchanged.
C5_AddDelta ==
    \A change \in ProbeChanges :
        OnUnsolved(Self, change) =>
            LET r == data_State_add_candidates(Self, change)
                entries == 1 .. Len(change)
                touched == UNION { KeyHouses(change[i][1]) : i \in entries }
            IN  /\ r.err = "none"
                /\ \A i \in entries :
                      MaskAt(r.s, change[i][1]) = MaskAt(Self, change[i][1]) \cup change[i][2]
                /\ \A h \in Houses \ touched : r.s.ss_houses[h] = ss_houses[h]
                /\ \A h \in touched, d \in TERMS :
                      r.s.ss_houses[h].hi_cand_count[d] =
                          ss_houses[h].hi_cand_count[d]
                          + Cardinality({ i \in entries :
                                /\ h \in KeyHouses(change[i][1])
                                /\ d \in change[i][2] \ MaskAt(Self, change[i][1]) })
                /\ (\A i \in entries : change[i][2] \subseteq MaskAt(Self, change[i][1]))
                      => r.s = Self

\* add_candidates has succeeded and left (0, 0) with every digit and (0, 1)
\* with digit 0 only
C5_Witness ==
    /\ last.op = "add_candidates"
    /\ last.err = "none"
    /\ \A key \in Keys : ~KeySolved(Self, key)
    /\ MaskAt(Self, <<0, 0>>) = TERMS
    /\ MaskAt(Self, <<0, 1>>) = {0}

\* C6: remove_candidates over unsolved coordinates makes every addressed
\* mask old & ~rem and lowers every house's cand_count[d] by the number of
\* entries whose cell lies in the house and for which d is in rem & old (by 0
\* for every other d and house), whether or not it ends in ContradictionError.
C6_RemoveDelta ==
    \A change \in ProbeChanges :
        OnUnsolved(Self, change) =>
            LET r == data_State_remove_candidates(Self, change)
                entries == 1 .. Len(change)
                touched == UNION { KeyHouses(change[i][1]) : i \in entries }
            IN  /\ r.err \in { "none", "ContradictionError" }
                /\ \A i \in entries :
                      MaskAt(r.s, change[i][1]) = MaskAt(Self, change[i][1]) \ change[i][2]
                /\ \A h \in Houses \ touched : r.s.ss_houses[h] = ss_houses[h]
                /\ \A h \in touched, d \in TERMS :
                      r.s.ss_houses[h].hi_cand_count[d] =
                          ss_houses[h].hi_cand_count[d]
                          - Cardinality({ i \in entries :
                                /\ h \in KeyHouses(change[i][1])
                                /\ d \in change[i][2] \cap MaskAt(Self, change[i][1]) })

\* remove_candidates has succeeded and left (0, 0) with the digits 1..8
C6_Witness ==
    /\ last.op = "remove_candidates"
    /\ last.err = "none"
    /\ ~KeySolved(Self, <<0, 0>>)
    /\ MaskAt(Self, <<0, 0>>) = TERMS \ {0}

\* C7: clues[key] = digit on an unsolved in-range key with digit in 0..8
\* succeeds, makes the cell solved with digit, adds key to solved_keys,
\* raises solved_total and digit_count[digit] by 1 (no other digit_count
\* changes), raises solved_count of the cell's three houses by 1, lowers
\* their cand_count[d] by 1 for every d of the cell's prior mask, changes no
\* other house, and leaves the cell's stored mask as it was.
C7_AssignClue ==
    \A key \in Keys, digit \in TERMS :
        ~KeySolved(Self, key) =>
            LET r == data_clues_ass_sub(Self, key, <<digit>>)
                prior == MaskAt(Self, key)
                three == KeyHouses(key)
            IN  /\ r.err = "none"
                /\ KeySolved(r.s, key)
                /\ r.s.ss_grid[INDEX(key[1], key[2])].ci_value = digit
                /\ MaskAt(r.s, key) = prior
                /\ r.s.ss_skeys = ss_skeys \cup {key}
                /\ r.s.ss_solved = ss_solved + 1
                /\ \A d \in TERMS :
                      r.s.ss_digits[d] = ss_digits[d] + (IF d = digit THEN 1 ELSE 0)
                /\ \A h \in Houses \ three : r.s.ss_houses[h] = ss_houses[h]
                /\ \A h \in three :
                      /\ r.s.ss_houses[h].hi_solved = ss_houses[h].hi_solved + 1
                      /\ \A d \in TERMS :
                            r.s.ss_houses[h].hi_cand_count[d] =
                                ss_houses[h].hi_cand_count[d] - (IF d \in prior THEN 1 ELSE 0)

\* a clue assignment has solved (0, 0), which keeps a mask that is not empty
C7_Witness ==
    /\ last.op = "clues_setitem"
    /\ last.err = "none"
    /\ KeySolved(Self, <<0, 0>>)
    /\ ss_grid[INDEX(0, 0)].ci_value = 0
    /\ MaskAt(Self, <<0, 0>>) # {}

\* C8: del clues[key] on a solved key succeeds, makes the cell unsolved with
\* the mask it held while solved, which the candidates view then returns,
\* removes key from solved_keys, lowers solved_total by 1, lowers
\* digit_count of the old digit by 1 (no other digit_count changes), lowers
\* solved_count of the cell's three houses by 1, raises their cand_count[d]
\* by 1 for every d of the kept mask, and changes no other house.
C8_DeleteClue ==
    \A key \in Keys :
        KeySolved(Self, key) =>
            LET r == data_clues_ass_sub(Self, key, <<>>)
                kept == MaskAt(Self, key)
                old == ss_grid[INDEX(key[1], key[2])].ci_value
                three == KeyHouses(key)
            IN  /\ r.err = "none"
                /\ ~KeySolved(r.s, key)
                /\ MaskAt(r.s, key) = kept
                /\ data_candidates_subscript(r.s, key) = [value |-> <<kept>>, err |-> "none"]
                /\ r.s.ss_skeys = ss_skeys \ {key}
                /\ r.s.ss_solved = ss_solved - 1
                /\ \A d \in TERMS :
                      r.s.ss_digits[d] = ss_digits[d] - (IF d = old THEN 1 ELSE 0)
                /\ \A h \in Houses \ three : r.s.ss_houses[h] = ss_houses[h]
                /\ \A h \in three :
                      /\ r.s.ss_houses[h].hi_solved = ss_houses[h].hi_solved - 1
                      /\ \A d \in TERMS :
                            r.s.ss_houses[h].hi_cand_count[d] =
                                ss_houses[h].hi_cand_count[d] + (IF d \in kept THEN 1 ELSE 0)

\* a clue deletion has unsolved (0, 0), whose kept mask is counted again
C8_Witness ==
    /\ last.op = "clues_delitem"
    /\ last.err = "none"
    /\ ~KeySolved(Self, <<0, 0>>)
    /\ MaskAt(Self, <<0, 0>>) = TERMS
    /\ ss_houses[NUMROWS].hi_cand_count[0] >= 1

\* C9: in every reachable state, for every solved key holding digit d,
\* del clues[key] followed by clues[key] = d succeeds and yields a state
\* equal to the starting one on every cell (solved or not, digit, mask), on
\* solved_keys, solved_total, digit_count and on every house.
C9_DeleteAssignRoundTrip ==
    \A key \in Keys :
        KeySolved(Self, key) =>
            LET d == ss_grid[INDEX(key[1], key[2])].ci_value
                deleted == data_clues_ass_sub(Self, key, <<>>)
                assigned == data_clues_ass_sub(deleted.s, key, <<d>>)
            IN  /\ deleted.err = "none"
                /\ assigned.err = "none"
                /\ SameState(assigned.s, Self)

MaxClues == 3

CtorKeys == { <<0, 0>>, <<0, 1>>, <<1, 0>>, <<4, 4>> }

\* the keys of the clues {(0,0): 0, (0,1): 1, (1,0): 2}
ExampleKeys == { <<0, 0>>, <<0, 1>>, <<1, 0>> }

CtorDigits == { -1, 0, 1, 2, 9 }

\* clue dictionaries of at most MaxClues items, in row-major key order
CtorDicts ==
    { d \in Dicts(CtorKeys, CtorDigits, MaxClues) :
        \A i \in 1 .. (Len(d) - 1) :
            INDEX(d[i][1][1], d[i][1][2]) < INDEX(d[i + 1][1][1], d[i + 1][1][2]) }

InitNew ==
    /\ ss_solved = NewObject.ss_solved
    /\ ss_digits = NewObject.ss_digits
    /\ ss_grconfig = NewObject.ss_grconfig
    /\ ss_skeys = NewObject.ss_skeys
    /\ ss_houses = NewObject.ss_houses
    /\ ss_grid = NewObject.ss_grid
    /\ last = Call("__new__", "none", <<>>)
    /\ ki = <<>>
    /\ ki_log = NoLog
    /\ ss_movehook = <<>>
    /\ NoSets

\* State(clues, dofill): __init__ on the object tp_new has made; when it
\* raises, the object is left as far as __init__ has come
Construct ==
    /\ last.op = "__new__"
    /\ \E clues \in CtorDicts, dofill \in BOOLEAN :
        LET r == data_State___init___impl(Self, clues, dofill)
        IN  /\ Becomes(r.s)
            /\ last' = Call(IF dofill THEN "State(clues, True)" ELSE "State(clues, False)",
                            r.err, <<>>)

\* clue dictionaries handed to __init__ when it is run again on a State
ReinitKeys == { <<0, 0>>, <<4, 4>> }

ReinitDigits == { 0, 1 }

ReinitDicts ==
    { d \in Dicts(ReinitKeys, ReinitDigits, Cardinality(ReinitKeys)) :
        \A i \in 1 .. (Len(d) - 1) :
            INDEX(d[i][1][1], d[i][1][2]) < INDEX(d[i + 1][1][1], d[i + 1][1][2]) }

\* state.__init__(clues, dofill) on a State the constructor has returned;
\* the outcome keeps the clues it was handed
Reinit ==
    /\ last.op \in { "State(clues, True)", "State(clues, False)" }
    /\ last.err = "none"
    /\ \E clues \in ReinitDicts, dofill \in BOOLEAN :
        LET r == data_State___init___impl(Self, clues, dofill)
        IN  /\ Becomes(r.s)
            /\ last' = Call("state.__init__(clues, dofill)", r.err, clues)

NextInit == Construct \/ Reinit

SpecInit == InitNew /\ [][NextInit]_vars

\* the constructor has returned without raising
Constructed == last.op \in { "State(clues, True)", "State(clues, False)" } /\ last.err = "none"

\* the cells sharing a row, a column or a box with cell i, without i
PeersOf(i) == (UNION { HouseMembers[h] : h \in KeyHouses(<<ROW(i), COL(i)>>) }) \ {i}

\* the digits held by the solved peers of cell i
PeerDigits(s, i) == { s.ss_grid[j].ci_value : j \in { p \in PeersOf(i) : Solved(s, p) } }

\* C11: no State is constructed from clues holding a digit outside 0..8 (the
\* constructor fails with ValueError instead): every State the constructor
\* has returned holds digits of 0..8 only in its solved cells, and no count
\* has been written at an index outside 0..8 (the word after digit_count,
\* ss_grconfig, is as set_python_calculated_attrs left it).
C11_InitRejectsBadDigit ==
    Constructed =>
        /\ \A i \in Cells : Solved(Self, i) => ss_grid[i].ci_value \in 0 .. (NUMROWS - 1)
        /\ ss_grconfig = 0

\* C12: after State(clues, dofill = true) with valid clues every unsolved
\* cell's mask is {0..8} minus the digits of the solved cells of its row,
\* column and box, every solved cell's mask is empty, and every house's
\* cand_count[d] is the number of its unsolved cells whose mask holds d; the
\* clues {(0,0): 0, (0,1): 1, (1,0): 2} give solved_total 3, num_remaining
\* 78, digit_count [1,1,1,0,0,0,0,0,0] and (0,2) without 0, 1 and 2.
C12_InitFill ==
    (/\ last.op = "State(clues, True)"
     /\ last.err = "none"
     /\ \A i \in Cells : Solved(Self, i) => ss_grid[i].ci_value \in 0 .. (NUMROWS - 1))
    =>
        /\ \A i \in Cells :
              ss_grid[i].ci_candidates =
                  IF Solved(Self, i) THEN {} ELSE TERMS \ PeerDigits(Self, i)
        /\ \A h \in Houses, d \in TERMS :
              ss_houses[h].hi_cand_count[d] =
                  Cardinality({ i \in HouseMembers[h] :
                                  ~Solved(Self, i) /\ d \in ss_grid[i].ci_candidates })
        /\ (/\ ss_skeys = ExampleKeys
            /\ ss_grid[INDEX(0, 0)].ci_value = 0
            /\ ss_grid[INDEX(0, 1)].ci_value = 1
            /\ ss_grid[INDEX(1, 0)].ci_value = 2)
           => /\ ss_solved = 3
              /\ data_State_num_remaining_getter(Self) = 78
              /\ data_State_num_values_getter(Self) =
                     [d \in 0 .. (NUMROWS - 1) |-> IF d < 3 THEN 1 ELSE 0]
              /\ MaskAt(Self, <<0, 2>>) \cap { 0, 1, 2 } = {}

\* State({(0,0): 0, (0,1): 1, (1,0): 2}, True) has been constructed: (0,2)
\* holds 3..8, (8,8) holds every digit
C12_Witness ==
    /\ last.op = "State(clues, True)"
    /\ last.err = "none"
    /\ ss_skeys = ExampleKeys
    /\ ss_grid[INDEX(0, 0)].ci_value = 0
    /\ ss_grid[INDEX(0, 1)].ci_value = 1
    /\ ss_grid[INDEX(1, 0)].ci_value = 2
    /\ MaskAt(Self, <<0, 2>>) = TERMS \ { 0, 1, 2 }
    /\ MaskAt(Self, <<8, 8>>) = TERMS

\* C13: in every reachable state candidates.fill() leaves the solved cells
\* (digit and kept mask) as they were and leaves every unsolved cell's mask
\* and every house's cand_count[d], d in 0..8, equal to those of a fresh
\* State(current clues, dofill = true) on the same configuration.
C13_FillMatchesFreshState ==
    LET r == data_state_candidates_fill_impl(Self)
        fresh == data_State___init___impl(NewObject, data_State___reduce___impl(Self).clues, TRUE)
    IN  /\ fresh.err = "none"
        /\ \A i \in Cells :
              IF Solved(Self, i) THEN CellView(r, i) = CellView(Self, i)
              ELSE /\ ~Solved(r, i)
                   /\ r.ss_grid[i].ci_candidates = fresh.s.ss_grid[i].ci_candidates
        /\ \A h \in Houses, d \in TERMS :
              r.ss_houses[h].hi_cand_count[d] = fresh.s.ss_houses[h].hi_cand_count[d]

\* the sets a reachable state's candidates view is assigned
ViewSets == CandSets \cup { {} }

\* C14: for every unsolved coordinate with mask old and every candidate set
\* C, candidates[coord] = C succeeds, the lookup candidates[coord] then
\* returns C, each of the cell's three houses has cand_count[d] changed by
\* [d in C] - [d in old] for every digit d, and every other house, every
\* solved_count, solved_total, digit_count and solved_keys are unchanged.
C14_ViewAssign ==
    \A key \in Keys, C \in ViewSets :
        ~KeySolved(Self, key) =>
            LET r == data_candidates_ass_sub(Self, key, <<C>>)
                old == MaskAt(Self, key)
                three == KeyHouses(key)
            IN  /\ r.err = "none"
                /\ data_candidates_subscript(r.s, key) = [value |-> <<C>>, err |-> "none"]
                /\ \A h \in Houses \ three : r.s.ss_houses[h] = ss_houses[h]
                /\ \A h \in three :
                      /\ r.s.ss_houses[h].hi_solved = ss_houses[h].hi_solved
                      /\ \A d \in TERMS :
                            r.s.ss_houses[h].hi_cand_count[d] =
                                ss_houses[h].hi_cand_count[d]
                                + (IF d \in C THEN 1 ELSE 0) - (IF d \in old THEN 1 ELSE 0)
                /\ r.s.ss_solved = ss_solved
                /\ r.s.ss_digits = ss_digits
                /\ r.s.ss_skeys = ss_skeys

\* candidates[(0, 0)] = {0} has replaced a mask: of the nine unsolved cells
\* of row 0 eight still hold digit 1
C14_Witness ==
    /\ last.op = "candidates_setitem"
    /\ last.err = "none"
    /\ ss_solved = 0
    /\ MaskAt(Self, <<0, 0>>) = {0}
    /\ MaskAt(Self, <<0, 1>>) = TERMS
    /\ ss_houses[2 * NUMROWS].hi_cand_count[1] = 8
    /\ ss_houses[2 * NUMROWS].hi_cand_count[0] = 9

\* C15: candidates.clear() empties the mask of every cell, solved or not,
\* and lowers every house's cand_count[d] by the number of its unsolved
\* cells whose mask held d (the masks kept by solved cells lower no count);
\* from a state whose cand_count is the recount of the unsolved masks every
\* cand_count is 0 afterwards.
C15_Clear ==
    LET r == data_state_candidates_clear_impl(Self)
        held == Table([h \in Houses |->
                    LET open == { i \in HouseMembers[h] : ~Solved(Self, i) }
                    IN  Table([d \in TERMS |->
                            Cardinality({ i \in open : d \in ss_grid[i].ci_candidates })])])
    IN  /\ \A i \in Cells : r.ss_grid[i].ci_candidates = {}
        /\ \A h \in Houses, d \in TERMS :
              r.ss_houses[h].hi_cand_count[d] = ss_houses[h].hi_cand_count[d] - held[h][d]
        /\ (\A h \in Houses, d \in TERMS : ss_houses[h].hi_cand_count[d] = held[h][d])
              => \A h \in Houses, d \in TERMS : r.ss_houses[h].hi_cand_count[d] = 0

\* candidates.clear() has run on a grid with a solved cell: no mask and no
\* count is left
C15_Witness ==
    /\ last.op = "candidates_clear"
    /\ KeySolved(Self, <<0, 0>>)
    /\ \A i \in Cells : ss_grid[i].ci_candidates = {}
    /\ \A h \in Houses, d \in TERMS : ss_houses[h].hi_cand_count[d] = 0

\* ------------------------------------------------------------------------
\* state_iterator: the KeyIterObject, its keyiterfuncs and the methods that
\* make one. A mask is handed to isizes as the integer the uint16_t holds.
Pow2 == Table([i \in AllBits |-> 2 ^ i])

CandsInt(set) == SumTo([i \in AllBits |-> IF i \in set THEN Pow2[i] ELSE 0], 15)

\* x & y on unsigned integers
RECURSIVE BitAnd(_, _)
BitAnd(a, b) ==
    IF a = 0 \/ b = 0 THEN 0
    ELSE (a % 2) * (b % 2) + 2 * BitAnd(a \div 2, b \div 2)

\* count_ones without the second subtraction
count_ones_one_shift(u) ==
    LET uCount == u - BitAnd(u \div 2, 1533916891)
    IN  BitAnd(uCount + (uCount \div 8), 1193046471) % 63

\* count_ones on the table indexes 0..511. The octal masks 033333333333,
\* 011111111111 and 030707070707 are written without their bit 31, which
\* meets a zero bit of every operand here.
count_ones(u) ==
    LET uCount == u - BitAnd(u \div 2, 1533916891) - BitAnd(u \div 4, 1227133513)
    IN  BitAnd(uCount + (uCount \div 8), 1193046471) % 63

\* the interned sizes, filled by PyInit_data for the 512 masks
isizes == Table([i \in 0 .. 511 |-> count_ones(i)])

\* new_keyiter_object: the fields a method does not set are not read by the
\* keyiterfunc it installs; they are written as 0 here
new_keyiter_object(nitems) ==
    [ ki_func |-> "NULL", ki_next_x |-> 0, ki_next_y |-> 0, ki_pos |-> 0,
      ki_data |-> <<>>, ob_size |-> nitems ]

\* The loops of simple_keyiterfunc, solved_keyiterfunc and
\* exactly_n_keyiterfunc: row i from ki_next_x, column j from ki_next_y (0
\* from the second row on), stopping at the first cell that Keep holds of.
ScanFrom(kiter, Keep(_)) ==
    LET ahead == { i \in 0 .. (GRIDSIZE - 1) :
                     /\ \/ ROW(i) = kiter.ki_next_x /\ COL(i) >= kiter.ki_next_y
                        \/ ROW(i) > kiter.ki_next_x
                     /\ Keep(i) }
    IN  IF ahead = {}
        THEN [rc |-> -1, x |-> 0, y |-> 0,
              ki |-> [kiter EXCEPT !.ki_next_y = IF kiter.ki_next_x < NUMROWS THEN 0 ELSE @]]
        ELSE LET i == CHOOSE m \in ahead : \A n \in ahead : m <= n
             IN  [rc |-> 0, x |-> ROW(i), y |-> COL(i),
                  ki |-> [kiter EXCEPT !.ki_next_x = ROW(i), !.ki_next_y = COL(i) + 1]]

\* simple_keyiterfunc that leaves ki_next_y on the cell it has just returned
simple_keyiterfunc_stays(grid, kiter) ==
    LET Keep(i) == ~FilledAt(grid, i)
        r == ScanFrom(kiter, Keep)
    IN  IF r.rc < 0 THEN r ELSE [r EXCEPT !.ki.ki_next_y = r.y]

simple_keyiterfunc(grid, kiter) ==
    LET Keep(i) == ~FilledAt(grid, i) IN ScanFrom(kiter, Keep)

\* solved_keyiterfunc that starts every scan at the first cell of the grid
solved_keyiterfunc_from_start(grid, kiter) ==
    LET Keep(i) == FilledAt(grid, i)
    IN  ScanFrom([kiter EXCEPT !.ki_next_x = 0, !.ki_next_y = 0], Keep)

solved_keyiterfunc(grid, kiter) ==
    LET Keep(i) == FilledAt(grid, i) IN ScanFrom(kiter, Keep)

exactly_n_keyiterfunc(grid, kiter) ==
    LET Keep(i) == /\ ~FilledAt(grid, i)
                   /\ isizes[CandsInt(grid[i].ci_candidates)] = kiter.ki_pos
    IN  ScanFrom(kiter, Keep)

\* precalculated_keyiterfunc; a slot of ki_data that was never written holds
\* whatever the allocation held: junk
precalculated_keyiterfunc(kiter, junk) ==
    IF kiter.ki_pos = kiter.ob_size THEN [rc |-> -1, x |-> 0, y |-> 0, ki |-> kiter]
    ELSE LET i == IF kiter.ki_pos < Len(kiter.ki_data)
                  THEN kiter.ki_data[kiter.ki_pos + 1] ELSE junk
         IN  [rc |-> 0, x |-> ROW(i), y |-> COL(i),
              ki |-> [kiter EXCEPT !.ki_pos = @ + 1]]

reversed_keyiterfunc(kiter, junk) ==
    LET pos == kiter.ki_pos - 1
    IN  IF pos = -1 THEN [rc |-> -1, x |-> 0, y |-> 0, ki |-> [kiter EXCEPT !.ki_pos = pos]]
        ELSE LET i == IF pos >= 0 /\ pos < Len(kiter.ki_data)
                      THEN kiter.ki_data[pos + 1] ELSE junk
             IN  [rc |-> 0, x |-> ROW(i), y |-> COL(i),
                  ki |-> [kiter EXCEPT !.ki_pos = pos]]

\* precalculated_keyiterfunc passing over the cells of ki_data that are
\* solved by the time they are reached
precalculated_keyiterfunc_looks_again(grid, kiter) ==
    LET left == { n \in (kiter.ki_pos + 1) .. Len(kiter.ki_data) :
                    ~FilledAt(grid, kiter.ki_data[n]) }
    IN  IF left = {}
        THEN [rc |-> -1, x |-> 0, y |-> 0, ki |-> [kiter EXCEPT !.ki_pos = kiter.ob_size]]
        ELSE LET n == CHOOSE m \in left : \A q \in left : m <= q
                 i == kiter.ki_data[n]
             IN  [rc |-> 0, x |-> ROW(i), y |-> COL(i), ki |-> [kiter EXCEPT !.ki_pos = n]]

\* data_KeyIter_iternext whose precalculated order looks at the grid again
data_KeyIter_iternext_looks_again(grid, kiter, junk) ==
    IF kiter.ki_func = "NULL" THEN [value |-> <<>>, ki |-> kiter]
    ELSE LET r == CASE kiter.ki_func = "simple_keyiterfunc" -> simple_keyiterfunc(grid, kiter)
                    [] kiter.ki_func = "solved_keyiterfunc" -> solved_keyiterfunc(grid, kiter)
                    [] kiter.ki_func = "exactly_n_keyiterfunc" -> exactly_n_keyiterfunc(grid, kiter)
                    [] kiter.ki_func = "precalculated_keyiterfunc" ->
                           precalculated_keyiterfunc_looks_again(grid, kiter)
                    [] kiter.ki_func = "reversed_keyiterfunc" -> reversed_keyiterfunc(kiter, junk)
         IN  IF r.rc < 0 THEN [value |-> <<>>, ki |-> [r.ki EXCEPT !.ki_func = "NULL"]]
             ELSE [value |-> << <<r.x, r.y>> >>, ki |-> r.ki]

\* data_KeyIter_iternext that keeps ki_func when the keyiterfunc is done
data_KeyIter_iternext_keeps_func(grid, kiter, junk) ==
    IF kiter.ki_func = "NULL" THEN [value |-> <<>>, ki |-> kiter]
    ELSE LET r == CASE kiter.ki_func = "simple_keyiterfunc" -> simple_keyiterfunc(grid, kiter)
                    [] kiter.ki_func = "solved_keyiterfunc" -> solved_keyiterfunc(grid, kiter)
                    [] kiter.ki_func = "exactly_n_keyiterfunc" -> exactly_n_keyiterfunc(grid, kiter)
                    [] kiter.ki_func = "precalculated_keyiterfunc" ->
                           precalculated_keyiterfunc(kiter, junk)
                    [] kiter.ki_func = "reversed_keyiterfunc" -> reversed_keyiterfunc(kiter, junk)
         IN  IF r.rc < 0 THEN [value |-> <<>>, ki |-> r.ki]
             ELSE [value |-> << <<r.x, r.y>> >>, ki |-> r.ki]

\* data_KeyIter_iternext: value is <<key>>, or <<>> for NULL (StopIteration)
data_KeyIter_iternext(grid, kiter, junk) ==
    IF kiter.ki_func = "NULL" THEN [value |-> <<>>, ki |-> kiter]
    ELSE LET r == CASE kiter.ki_func = "simple_keyiterfunc" -> simple_keyiterfunc(grid, kiter)
                    [] kiter.ki_func = "solved_keyiterfunc" -> solved_keyiterfunc(grid, kiter)
                    [] kiter.ki_func = "exactly_n_keyiterfunc" -> exactly_n_keyiterfunc(grid, kiter)
                    [] kiter.ki_func = "precalculated_keyiterfunc" ->
                           precalculated_keyiterfunc(kiter, junk)
                    [] kiter.ki_func = "reversed_keyiterfunc" -> reversed_keyiterfunc(kiter, junk)
         IN  IF r.rc < 0 THEN [value |-> <<>>, ki |-> [r.ki EXCEPT !.ki_func = "NULL"]]
             ELSE [value |-> << <<r.x, r.y>> >>, ki |-> r.ki]

start_building_precalculated_keyiter(s) ==
    [new_keyiter_object(GRIDSIZE - s.ss_solved) EXCEPT
        !.ki_func = "precalculated_keyiterfunc", !.ki_pos = 0]

data_State_order_simple_impl(s) ==
    [new_keyiter_object(0) EXCEPT
        !.ki_func = "simple_keyiterfunc", !.ki_next_x = 0, !.ki_next_y = 0]

data_State_order_solved_impl(s) ==
    [new_keyiter_object(0) EXCEPT
        !.ki_func = "solved_keyiterfunc", !.ki_next_x = 0, !.ki_next_y = 0]

\* ki is <<>> when the call raises
data_State_order_exactly_n_impl(s, count) ==
    IF count < 0 \/ count >= NUMROWS THEN [ki |-> <<>>, err |-> "ValueError"]
    ELSE [ki |-> << [new_keyiter_object(0) EXCEPT
                       !.ki_func = "exactly_n_keyiterfunc",
                       !.ki_next_x = 0, !.ki_next_y = 0, !.ki_pos = count] >>,
          err |-> "none"]

\* order_random, first loop: the bytes of tries in turn, until they are used
\* up or ki_data is full
RECURSIVE random_tries(_, _, _, _, _, _, _)
random_tries(grid, tries, i, seen, data, key, size) ==
    IF i > Len(tries) THEN [seen |-> seen, data |-> data, key |-> key]
    ELSE LET k == tries[i] % GRIDSIZE
         IN  IF k \in seen THEN random_tries(grid, tries, i + 1, seen, data, k, size)
             ELSE IF grid[k].ci_value < ERRORBIT
                  THEN random_tries(grid, tries, i + 1, seen \cup {k}, data, k, size)
             ELSE IF Len(data) + 1 = size
                  THEN [seen |-> seen \cup {k}, data |-> Append(data, k), key |-> k]
             ELSE random_tries(grid, tries, i + 1, seen \cup {k}, Append(data, k), k, size)

\* a pass of the second loop that takes the cell without looking at ci_value
random_pass_takes_solved(grid, r) ==
    LET k == ((r.key * 4) + r.key + 1) % 128
    IN  IF k >= GRIDSIZE \/ k \in r.seen THEN [r EXCEPT !.key = k]
        ELSE [key |-> k, seen |-> r.seen \cup {k}, data |-> Append(r.data, k)]

\* order_random, one pass of the second loop: key <- (5 key + 1) & 127, and
\* the cell is taken when it is in the grid, not yet seen and not solved
random_pass(grid, r) ==
    LET k == ((r.key * 4) + r.key + 1) % 128
    IN  IF k >= GRIDSIZE \/ k \in r.seen THEN [r EXCEPT !.key = k]
        ELSE IF grid[k].ci_value < ERRORBIT
             THEN [r EXCEPT !.key = k, !.seen = @ \cup {k}]
        ELSE [key |-> k, seen |-> r.seen \cup {k}, data |-> Append(r.data, k)]

\* n passes of the second loop, which ends once ki_data is full; the passes
\* are run as two halves one after the other
RECURSIVE random_walk(_, _, _, _)
random_walk(grid, r, size, n) ==
    IF Len(r.data) >= size \/ n = 0 THEN r
    ELSE IF n = 1 THEN random_pass(grid, r)
    ELSE random_walk(grid, random_walk(grid, r, size, n \div 2), size, n - (n \div 2))

\* the recurrence has period 128 and goes through every key in a period:
\* a pass after the first 128 meets only keys it has seen
RANDOM_PERIOD == 128

\* the number of random bytes order_random asks for
numtries(s) == ((GRIDSIZE - s.ss_solved) \div 6) + 1

\* order_random whose second loop is given half a period of the recurrence
order_random_half_period(s, tries) ==
    LET kiter == start_building_precalculated_keyiter(s)
    IN  IF kiter.ob_size = 0 THEN [ki |-> kiter, returns |-> TRUE]
        ELSE LET first == random_tries(s.ss_grid, tries, 1, {}, <<>>, 0, kiter.ob_size)
                 rest == random_walk(s.ss_grid, first, kiter.ob_size, RANDOM_PERIOD \div 2)
             IN  [ki |-> [kiter EXCEPT !.ki_data = rest.data],
                  returns |-> Len(rest.data) >= kiter.ob_size]

\* tries is what _PyOS_URandom has written
data_State_order_random_impl(s, tries) ==
    LET kiter == start_building_precalculated_keyiter(s)
    IN  IF kiter.ob_size = 0 THEN [ki |-> kiter, returns |-> TRUE]
        ELSE LET first == random_tries(s.ss_grid, tries, 1, {}, <<>>, 0, kiter.ob_size)
                 rest == random_walk(s.ss_grid, first, kiter.ob_size, RANDOM_PERIOD)
             IN  [ki |-> [kiter EXCEPT !.ki_data = rest.data],
                  \* the loop goes on for ever when ki_data cannot be filled
                  returns |-> Len(rest.data) >= kiter.ob_size]

\* order_by_num_candidates with a single pass over the grid, whatever the sizes
order_by_num_candidates_one_pass(s) ==
    LET kiter == start_building_precalculated_keyiter(s)
        open == { j \in 0 .. (GRIDSIZE - 1) : ~FilledAt(s.ss_grid, j) }
    IN  [kiter EXCEPT !.ki_data =
            [n \in 1 .. Cardinality(open) |->
                CHOOSE j \in open : Cardinality({ q \in open : q < j }) = n - 1]]

\* order_by_num_candidates: set_lens, then one pass over the grid for each
\* size 0..9 that was seen; ki_data holds the unfilled cells by (size, index)
data_State_order_by_num_candidates_impl(s) ==
    LET kiter == start_building_precalculated_keyiter(s)
        grid == s.ss_grid
        open == { j \in 0 .. (GRIDSIZE - 1) : ~FilledAt(grid, j) }
        set_lens == [j \in open |-> isizes[CandsInt(grid[j].ci_candidates)]]
        Before(a, b) == set_lens[a] < set_lens[b] \/ (set_lens[a] = set_lens[b] /\ a < b)
    IN  [kiter EXCEPT !.ki_data =
            [n \in 1 .. Cardinality(open) |->
                CHOOSE j \in open : Cardinality({ q \in open : Before(q, j) }) = n - 1]]

data_State_order_by_num_candidates_rev_impl(s) ==
    LET kiter == data_State_order_by_num_candidates_impl(s)
    IN  [kiter EXCEPT !.ki_func = "reversed_keyiterfunc", !.ki_pos = kiter.ob_size]

\* ------------------------------------------------------------------------
\* Traversals: a State constructed with most cells solved is asked for an
\* iterator, which is then drained; the State is not touched once the
\* iterator exists.
MaxOpen == 6

\* the cells left unsolved are the first keys of OpenOrder, at most MaxOpen
\* of them, or its last two keys
OpenOrder == << <<0, 0>>, <<0, 1>>, <<1, 0>>, <<1, 1>>, <<0, 8>>, <<8, 8>>, <<4, 4>> >>

OpenSets ==
    { { OpenOrder[k] : k \in 1 .. b } : b \in 0 .. MaxOpen }
        \cup { { OpenOrder[Len(OpenOrder) - 1], OpenOrder[Len(OpenOrder)] } }

\* the digit a solved cell is constructed with: a completed grid
SolutionDigit(x, y) == (3 * (x % 3) + (x \div 3) + y) % NUMROWS

\* the clues dictionary solving every cell outside open, in row-major order
IterClues(open) ==
    LET given == { i \in 0 .. (GRIDSIZE - 1) : <<ROW(i), COL(i)>> \notin open }
    IN  [n \in 1 .. Cardinality(given) |->
            LET i == CHOOSE j \in given : Cardinality({ q \in given : q < j }) = n - 1
            IN  << <<ROW(i), COL(i)>>, SolutionDigit(ROW(i), COL(i)) >>]

\* the counts order_exactly_n is asked with
ProbeCounts == { -1, 0, 1, 4, 9 }

\* the bytes _PyOS_URandom may write
TryBytes == { 0, 1, 8, 80, 81, 90, 255 }

RECURSIVE ByteSeqs(_)
ByteSeqs(n) ==
    IF n = 0 THEN { <<>> }
    ELSE { Append(q, b) : q \in ByteSeqs(n - 1), b \in TryBytes }

InitIter ==
    \E open \in OpenSets, dofill \in BOOLEAN :
        LET r == data_State___init___impl(NewObject, IterClues(open), dofill)
        IN  /\ r.err = "none"
            /\ ss_solved = r.s.ss_solved
            /\ ss_digits = r.s.ss_digits
            /\ ss_grconfig = r.s.ss_grconfig
            /\ ss_skeys = r.s.ss_skeys
            /\ ss_houses = r.s.ss_houses
            /\ ss_grid = r.s.ss_grid
            /\ last = Call("__init__", "none", <<>>)
            /\ ki = <<>>
            /\ ki_log = NoLog
            /\ ss_movehook = <<>>
            /\ NoSets

\* the State object is left alone
SameObject ==
    UNCHANGED <<ss_solved, ss_digits, ss_grconfig, ss_skeys, ss_houses, ss_grid, ss_movehook,
                cs, cs_iter, cs_log>>

\* a method has returned the iterator kiter
Made(order, count, kiter) ==
    /\ ki' = <<kiter>>
    /\ ki_log' = [order |-> order, count |-> count, keys |-> <<>>, stopped |-> FALSE]
    /\ last' = Call(order, "none", <<>>)
    /\ SameObject

\* masks are set through the candidates view before an iterator is asked for
SetMask == ki = <<>> /\ CandidatesAssign

OrderSimple == ki = <<>> /\ Made("order_simple", 0, data_State_order_simple_impl(Self))

OrderSolved == ki = <<>> /\ Made("order_solved", 0, data_State_order_solved_impl(Self))

OrderExactlyN ==
    /\ ki = <<>>
    /\ \E count \in ProbeCounts :
        LET r == data_State_order_exactly_n_impl(Self, count)
        IN  /\ r.err = "none"
            /\ Made("order_exactly_n", count, r.ki[1])

OrderRandom ==
    /\ ki = <<>>
    /\ \E tries \in ByteSeqs(numtries(Self)) :
        LET r == data_State_order_random_impl(Self, tries)
        IN  /\ r.returns
            /\ Made("order_random", 0, r.ki)

OrderByNumCandidates ==
    ki = <<>> /\ Made("order_by_num_candidates", 0, data_State_order_by_num_candidates_impl(Self))

OrderByNumCandidatesRev ==
    /\ ki = <<>>
    /\ Made("order_by_num_candidates_rev", 0, data_State_order_by_num_candidates_rev_impl(Self))

\* next(iterator), until it has raised StopIteration
IterNext ==
    /\ ki # <<>>
    /\ ~ki_log.stopped
    /\ \E junk \in 0 .. (GRIDSIZE - 1) :
        /\ junk = 0 \/ Len(ki[1].ki_data) < ki[1].ob_size
        /\ LET r == data_KeyIter_iternext(ss_grid, ki[1], junk)
           IN  /\ ki' = <<r.ki>>
               /\ ki_log' = IF r.value = <<>> THEN [ki_log EXCEPT !.stopped = TRUE]
                            ELSE [ki_log EXCEPT !.keys = Append(@, r.value[1])]
               /\ UNCHANGED last
               /\ SameObject

NextIter ==
    \/ SetMask
    \/ OrderSimple
    \/ OrderSolved
    \/ OrderExactlyN
    \/ OrderRandom
    \/ OrderByNumCandidates
    \/ OrderByNumCandidatesRev
    \/ IterNext

SpecIter == InitIter /\ [][NextIter]_vars

\* ------------------------------------------------------------------------
\* What a traversal has yielded so far, against the grid it was made on
KeyIndex(key) == INDEX(key[1], key[2])

\* the indexes a traversal has yielded, in the order it yielded them
Yielded == [n \in 1 .. Len(ki_log.keys) |-> KeyIndex(ki_log.keys[n])]

UnsolvedCells == { i \in 0 .. (GRIDSIZE - 1) : ~FilledAt(ss_grid, i) }

SolvedCells == { i \in 0 .. (GRIDSIZE - 1) : FilledAt(ss_grid, i) }

YieldedSet == { Yielded[n] : n \in 1 .. Len(Yielded) }

\* the traversal has yielded the smallest members of set in increasing
\* order, each once, and all of them when it has stopped
InOrder(set) ==
    /\ YieldedSet \subseteq set
    /\ \A n \in 1 .. (Len(Yielded) - 1) : Yielded[n] < Yielded[n + 1]
    /\ Len(Yielded) > 0 =>
          \A i \in set : i <= Yielded[Len(Yielded)] => i \in YieldedSet
    /\ ki_log.stopped => YieldedSet = set

\* C16: on a state left alone during the traversal, order_simple yields the
\* unsolved cells, each once, in increasing row-major index, num_remaining
\* of them in all; order_solved yields the solved cells in the same way,
\* solved_total of them in all.
C16_OrderSimpleSolved ==
    /\ ki_log.order = "order_simple" =>
          /\ InOrder(UnsolvedCells)
          /\ ki_log.stopped => Len(Yielded) = GRIDSIZE - ss_solved
    /\ ki_log.order = "order_solved" =>
          /\ InOrder(SolvedCells)
          /\ ki_log.stopped => Len(Yielded) = ss_solved

C16_Witness ==
    /\ ki_log.order = "order_simple"
    /\ ki_log.stopped
    /\ Len(ki_log.keys) = MaxOpen
    /\ ss_solved = GRIDSIZE - MaxOpen

\* C17: whatever the random bytes are, order_random yields num_remaining
\* coordinates, each of an unsolved cell and none of them twice, so that
\* every unsolved cell is visited exactly once.
C17_OrderRandom ==
    /\ ki_log.order = "order_random" =>
          /\ YieldedSet \subseteq UnsolvedCells
          /\ Cardinality(YieldedSet) = Len(Yielded)
          /\ ki_log.stopped =>
                /\ YieldedSet = UnsolvedCells
                /\ Len(Yielded) = GRIDSIZE - ss_solved
    /\ ki = <<>> =>
          \A tries \in ByteSeqs(numtries(Self)) :
              LET r == data_State_order_random_impl(Self, tries)
                  data == r.ki.ki_data
              IN  /\ r.returns
                  /\ Len(data) = r.ki.ob_size
                  /\ Len(data) = GRIDSIZE - ss_solved
                  /\ { data[n] : n \in 1 .. Len(data) } = UnsolvedCells

\* every unsolved cell has been yielded, and not in row-major order
C17_Witness ==
    /\ ki_log.order = "order_random"
    /\ ki_log.stopped
    /\ Len(Yielded) = MaxOpen
    /\ Yielded[1] > Yielded[2]

\* the number of candidates of the cell at index i
MaskSize(i) == Cardinality(ss_grid[i].ci_candidates)

\* cell a comes before cell b: fewer candidates, or as many and a smaller index
BySize(a, b) == MaskSize(a) < MaskSize(b) \/ (MaskSize(a) = MaskSize(b) /\ a < b)

\* C18: on a state left alone during the traversal, order_by_num_candidates
\* yields every unsolved cell once, cells with an empty mask included, by
\* increasing number of candidates and, among equals, by increasing
\* row-major index; order_by_num_candidates_rev yields the reverse sequence.
C18_OrderByNumCandidates ==
    /\ ki_log.order = "order_by_num_candidates" =>
          /\ YieldedSet \subseteq UnsolvedCells
          /\ \A n \in 1 .. (Len(Yielded) - 1) : BySize(Yielded[n], Yielded[n + 1])
          /\ Len(Yielded) > 0 =>
                \A i \in UnsolvedCells \ YieldedSet : BySize(Yielded[Len(Yielded)], i)
          /\ ki_log.stopped => YieldedSet = UnsolvedCells
    /\ ki_log.order = "order_by_num_candidates_rev" =>
          /\ YieldedSet \subseteq UnsolvedCells
          /\ \A n \in 1 .. (Len(Yielded) - 1) : BySize(Yielded[n + 1], Yielded[n])
          /\ Len(Yielded) > 0 =>
                \A i \in UnsolvedCells \ YieldedSet : BySize(i, Yielded[Len(Yielded)])
          /\ ki_log.stopped => YieldedSet = UnsolvedCells

\* a finished traversal in which a cell with fewer candidates came before a
\* cell of smaller index
C18_Witness ==
    /\ ki_log.order = "order_by_num_candidates"
    /\ ki_log.stopped
    /\ Len(Yielded) = MaxOpen
    /\ \E n \in 1 .. (Len(Yielded) - 1) : Yielded[n] > Yielded[n + 1]
    /\ \E i \in UnsolvedCells : MaskSize(i) = 0

\* the traversal made by order_exactly_n yields, in row-major order, the
\* unsolved cells that have exactly the number of candidates asked for
ExactlyNYields ==
    ki_log.order = "order_exactly_n" =>
        InOrder({ i \in UnsolvedCells : MaskSize(i) = ki_log.count })

\* C19: order_exactly_n(k) raises ValueError and makes no iterator when k is
\* 0, when k >= 9 and when k is negative; for a k it accepts, the traversal
\* yields in row-major order the unsolved cells with exactly k candidates.
C19_OrderExactlyN ==
    /\ ki = <<>> =>
          \A count \in ProbeCounts :
              LET r == data_State_order_exactly_n_impl(Self, count)
              IN  IF count \in 1 .. (NUMROWS - 1)
                  THEN r.err = "none" /\ r.ki # <<>>
                  ELSE r.err = "ValueError" /\ r.ki = <<>>
    /\ ExactlyNYields

\* ------------------------------------------------------------------------
\* find_rectangles. A rectangle is << S, << ul, ur, lr, ll >> >>; cands is
\* an object with its type and, for a CandidateSet, its cs_set; key is <<>>
\* for None or absent, else <<key>>.
PyNone == [tp_name |-> "NoneType", cs_set |-> {}]

CandidateSetObject(set) == [tp_name |-> "CandidateSet", cs_set |-> set]

NotACandidateSet == [tp_name |-> "str", cs_set |-> {}]

CandsAt(grid, x, y) == grid[INDEX(x, y)].ci_candidates

\* the rows i .. NUMROWS-1 under the upper corners (x, y) and (x, j), whose
\* shared candidates are tmp
RECURSIVE rectangles_down(_, _, _, _, _, _, _)
rectangles_down(grid, x, y, j, tmp, required, i) ==
    IF i >= NUMROWS THEN <<>>
    ELSE LET ll == tmp \cap CandsAt(grid, i, y)
             lr == ll \cap CandsAt(grid, i, j)
             here == IF /\ ~CELL_FILLED(grid, i, y)
                        /\ ll # {} /\ required \subseteq ll
                        /\ ~CELL_FILLED(grid, i, j)
                        /\ lr # {} /\ required \subseteq lr
                     THEN << << lr, << <<x, y>>, <<x, j>>, <<i, j>>, <<i, y>> >> >> >>
                     ELSE <<>>
         IN  here \o rectangles_down(grid, x, y, j, tmp, required, i + 1)

\* the loop over the columns run from the last column to column j
RECURSIVE rectangles_right_to_left(_, _, _, _, _, _)
rectangles_right_to_left(grid, x, y, ul_set, required, j) ==
    IF j >= NUMROWS THEN <<>>
    ELSE LET ur == ul_set \cap CandsAt(grid, x, j)
             here == IF ~CELL_FILLED(grid, x, j) /\ ur # {} /\ required \subseteq ur
                     THEN rectangles_down(grid, x, y, j, ur, required, x + 1)
                     ELSE <<>>
         IN  rectangles_right_to_left(grid, x, y, ul_set, required, j + 1) \o here

\* the columns j .. NUMROWS-1 to the right of the upper left corner (x, y)
RECURSIVE rectangles_right(_, _, _, _, _, _)
rectangles_right(grid, x, y, ul_set, required, j) ==
    IF j >= NUMROWS THEN <<>>
    ELSE LET ur == ul_set \cap CandsAt(grid, x, j)
             here == IF ~CELL_FILLED(grid, x, j) /\ ur # {} /\ required \subseteq ur
                     THEN rectangles_down(grid, x, y, j, ur, required, x + 1)
                     ELSE <<>>
         IN  here \o rectangles_right(grid, x, y, ul_set, required, j + 1)

\* find_rectangles_one_key whose walk to the right starts at the column of
\* the upper left corner itself
find_rectangles_one_key_from_own_column(s, x, y, cands) ==
    IF x = NUMROWS - 1 \/ y = NUMROWS - 1 THEN [found |-> <<>>, err |-> "ValueError"]
    ELSE IF CELL_FILLED(s.ss_grid, x, y) THEN [found |-> <<>>, err |-> "none"]
    ELSE LET required == IF cands = PyNone THEN {} ELSE cands.cs_set
             ul_set == CandsAt(s.ss_grid, x, y)
         IN  IF ~(required \subseteq ul_set) THEN [found |-> <<>>, err |-> "none"]
             ELSE [found |-> rectangles_right(s.ss_grid, x, y, ul_set, required, y),
                   err |-> "none"]

\* find_rectangles_one_key that asks for no candidate whatever cands is
find_rectangles_one_key_any(s, x, y, cands) ==
    IF x = NUMROWS - 1 \/ y = NUMROWS - 1 THEN [found |-> <<>>, err |-> "ValueError"]
    ELSE IF CELL_FILLED(s.ss_grid, x, y) THEN [found |-> <<>>, err |-> "none"]
    ELSE [found |-> rectangles_right(s.ss_grid, x, y, CandsAt(s.ss_grid, x, y), {}, y + 1),
          err |-> "none"]

\* find_rectangles_one_key that looks at CELL_FILLED before it looks at the
\* place of the corner
find_rectangles_one_key_filled_first(s, x, y, cands) ==
    IF CELL_FILLED(s.ss_grid, x, y) THEN [found |-> <<>>, err |-> "none"]
    ELSE IF x = NUMROWS - 1 \/ y = NUMROWS - 1 THEN [found |-> <<>>, err |-> "ValueError"]
    ELSE LET required == IF cands = PyNone THEN {} ELSE cands.cs_set
             ul_set == CandsAt(s.ss_grid, x, y)
         IN  IF ~(required \subseteq ul_set) THEN [found |-> <<>>, err |-> "none"]
             ELSE [found |-> rectangles_right(s.ss_grid, x, y, ul_set, required, y + 1),
                   err |-> "none"]

\* cands is None or a CandidateSet here
find_rectangles_one_key(s, x, y, cands) ==
    IF x = NUMROWS - 1 \/ y = NUMROWS - 1 THEN [found |-> <<>>, err |-> "ValueError"]
    ELSE IF CELL_FILLED(s.ss_grid, x, y) THEN [found |-> <<>>, err |-> "none"]
    ELSE LET required == IF cands = PyNone THEN {} ELSE cands.cs_set
             ul_set == CandsAt(s.ss_grid, x, y)
         IN  IF ~(required \subseteq ul_set) THEN [found |-> <<>>, err |-> "none"]
             ELSE [found |-> rectangles_right(s.ss_grid, x, y, ul_set, required, y + 1),
                   err |-> "none"]

\* the loop over the upper left corners (i, j), (i, j + 1), ... of row i
RECURSIVE rectangles_of_row(_, _, _, _)
rectangles_of_row(s, i, j, cands) ==
    IF j >= NUMROWS - 1 THEN <<>>
    ELSE (IF ~CELL_FILLED(s.ss_grid, i, j)
          THEN find_rectangles_one_key(s, i, j, cands).found ELSE <<>>)
         \o rectangles_of_row(s, i, j + 1, cands)

\* the loop over the rows i .. NUMROWS-2
RECURSIVE rectangles_of_rows(_, _, _)
rectangles_of_rows(s, i, cands) ==
    IF i >= NUMROWS - 1 THEN <<>>
    ELSE rectangles_of_row(s, i, 0, cands) \o rectangles_of_rows(s, i + 1, cands)

data_State_find_rectangles_impl(s, key, cands) ==
    IF cands # PyNone /\ cands.tp_name # "CandidateSet"
    THEN [value |-> <<>>, err |-> "TypeError"]
    ELSE IF key # <<>>
         THEN IF ~KeyOk(key[1]) THEN [value |-> <<>>, err |-> "TypeError"]
              ELSE LET r == find_rectangles_one_key(s, key[1][1], key[1][2], cands)
                   IN  [value |-> r.found, err |-> r.err]
    ELSE [value |-> rectangles_of_rows(s, 0, cands), err |-> "none"]

\* ------------------------------------------------------------------------
\* Rectangle search: a State constructed with the cells of RectKeys (two
\* rows, three columns) left unsolved, or all of them but the last; masks
\* are set through the candidates view and find_rectangles is called.
RectKeys == { <<1, 0>>, <<1, 4>>, <<1, 8>>, <<8, 0>>, <<8, 4>>, <<8, 8>> }

RectOpen == { RectKeys, RectKeys \ { <<8, 8>> } }

RectSets == { {0}, {0, 1} }

\* the cands argument of find_rectangles
RectCands ==
    { PyNone, NotACandidateSet } \cup { CandidateSetObject(set) : set \in { {}, {0}, {1}, {0, 1} } }

InitRect ==
    \E open \in RectOpen :
        LET r == data_State___init___impl(NewObject, IterClues(open), FALSE)
        IN  /\ r.err = "none"
            /\ ss_solved = r.s.ss_solved
            /\ ss_digits = r.s.ss_digits
            /\ ss_grconfig = r.s.ss_grconfig
            /\ ss_skeys = r.s.ss_skeys
            /\ ss_houses = r.s.ss_houses
            /\ ss_grid = r.s.ss_grid
            /\ last = Call("__init__", "none", <<>>)
            /\ ki = <<>>
            /\ ki_log = NoLog
            /\ ss_movehook = <<>>
            /\ NoSets

\* candidates[key] = set
RectSetMask ==
    \E key \in RectKeys, set \in RectSets :
        LET r == data_candidates_ass_sub(Self, key, <<set>>)
        IN  /\ Applied(r)
            /\ Becomes(r.s)
            /\ last' = Call("candidates_setitem", r.err, <<>>)

\* state.find_rectangles(None, cands); rkey holds the tuple it returns
FindRectangles ==
    \E cands \in RectCands :
        LET r == data_State_find_rectangles_impl(Self, <<>>, cands)
        IN  /\ last' = Call("find_rectangles", r.err, r.value)
            /\ SameObject
            /\ UNCHANGED <<ki, ki_log>>

\* the corners find_rectangles is anchored at: unsolved ones, a solved one,
\* and corners in the last row and the last column
RectCorners == { <<1, 0>>, <<1, 4>>, <<0, 0>>, <<8, 8>>, <<1, 8>> }

\* state.find_rectangles(key, cands)
FindRectanglesAt ==
    \E key \in RectCorners, cands \in RectCands :
        LET r == data_State_find_rectangles_impl(Self, <<key>>, cands)
        IN  /\ last' = Call("find_rectangles(key)", r.err, r.value)
            /\ SameObject
            /\ UNCHANGED <<ki, ki_log>>

NextRect ==
    \/ RectSetMask
    \/ FindRectangles
    \/ FindRectanglesAt

SpecRect == InitRect /\ [][NextRect]_vars

\* the rows and the columns that hold an unsolved cell
OpenRows == { ROW(i) : i \in UnsolvedCells }

OpenCols == { COL(i) : i \in UnsolvedCells }

\* the candidates the four corners share
Shared(r1, r2, c1, c2) ==
    CandsAt(ss_grid, r1, c1) \cap CandsAt(ss_grid, r1, c2)
        \cap CandsAt(ss_grid, r2, c2) \cap CandsAt(ss_grid, r2, c1)

\* the rectangles of the grid that share at least the candidates of required
Rectangles(required) ==
    { << Shared(w[1], w[2], w[3], w[4]),
         << <<w[1], w[3]>>, <<w[1], w[4]>>, <<w[2], w[4]>>, <<w[2], w[3]>> >> >> :
        w \in { v \in OpenRows \X OpenRows \X OpenCols \X OpenCols :
                  /\ v[1] < v[2]
                  /\ v[3] < v[4]
                  /\ \A x \in { v[1], v[2] }, y \in { v[3], v[4] } :
                        ~CELL_FILLED(ss_grid, x, y)
                  /\ Shared(v[1], v[2], v[3], v[4]) # {}
                  /\ required \subseteq Shared(v[1], v[2], v[3], v[4]) } }

\* C20: find_rectangles(None, required) returns the rectangles of the grid,
\* each once: for rows r1 < r2 and columns c1 < c2 the tuple
\* (S, ((r1,c1), (r1,c2), (r2,c2), (r2,c1))) is returned exactly when the
\* four cells are unsolved, the candidates S they share are not empty and,
\* when required is given, required is a subset of S.
C20_FindRectangles ==
    \A cands \in RectCands \ { NotACandidateSet } :
        LET r == data_State_find_rectangles_impl(Self, <<>>, cands)
            returned == { r.value[n] : n \in 1 .. Len(r.value) }
        IN  /\ r.err = "none"
            /\ returned = Rectangles(cands.cs_set)
            /\ Cardinality(returned) = Len(r.value)

\* find_rectangles has returned the three rectangles of the six cells, one
\* of them sharing two candidates and one sharing a single one
C20_Witness ==
    /\ last.op = "find_rectangles"
    /\ last.err = "none"
    /\ Len(last.rkey) = 3
    /\ \E n, k \in 1 .. Len(last.rkey) :
          /\ last.rkey[n][1] = {0, 1}
          /\ last.rkey[k][1] = {0}
          /\ last.rkey[k][2][3] = <<8, 8>>

\* the cands arguments find_rectangles accepts
GoodCands == RectCands \ { NotACandidateSet }

\* find_rectangles((x, y), cands) for the corner of index n
AnchoredAt(n, cands) == data_State_find_rectangles_impl(Self, << <<ROW(n), COL(n)>> >>, cands)

\* the indexes of the corners outside the last row and the last column
Anchors == { n \in 0 .. (GRIDSIZE - 1) : ROW(n) < NUMROWS - 1 /\ COL(n) < NUMROWS - 1 }

\* the anchored results of the corners of Anchors with an index in lo .. hi,
\* one after the other in row-major order
RECURSIVE AnchoredRange(_, _, _)
AnchoredRange(cands, lo, hi) ==
    IF lo > hi THEN <<>>
    ELSE IF lo = hi THEN (IF lo \in Anchors THEN AnchoredAt(lo, cands).value ELSE <<>>)
    ELSE LET mid == (lo + hi) \div 2
         IN  AnchoredRange(cands, lo, mid) \o AnchoredRange(cands, mid + 1, hi)

\* rectangle a comes before rectangle b: its right column is smaller, or the
\* same and its lower row is smaller
RectBefore(a, b) ==
    \/ a[2][3][2] < b[2][3][2]
    \/ a[2][3][2] = b[2][3][2] /\ a[2][3][1] < b[2][3][1]

C22_BadCorner ==
    last.op # "find_rectangles" =>
        \A cands \in GoodCands :
            /\ \A n \in 0 .. (GRIDSIZE - 1) :
                  LET r == AnchoredAt(n, cands)
                  IN  IF ROW(n) = NUMROWS - 1 \/ COL(n) = NUMROWS - 1
                      THEN r.err = "ValueError" /\ r.value = <<>>
                      ELSE /\ r.err = "none"
                           /\ FilledAt(ss_grid, n) => r.value = <<>>
            /\ data_State_find_rectangles_impl(Self, <<>>, cands).err = "none"

\* an anchored call has raised ValueError on a grid whose corner (8, 8) is
\* solved and whose corner (1, 8) is not
C22_Witness ==
    /\ last.op = "find_rectangles(key)"
    /\ last.err = "ValueError"
    /\ CELL_FILLED(ss_grid, 8, 8)
    /\ ~CELL_FILLED(ss_grid, 1, 8)

\* ------------------------------------------------------------------------
\* movehook: ss_movehook is <<>> for NULL, else <<move>>. The attribute is
\* read and written on a State whose masks are set through the candidates
\* view in between.
\* a getter that leaves the move in the slot
data_State_movehook_getter_keeps(hook) ==
    IF hook = <<>> THEN [value |-> "None", hook |-> hook]
    ELSE [value |-> hook[1], hook |-> hook]

data_State_movehook_getter(hook) ==
    IF hook = <<>> THEN [value |-> "None", hook |-> hook]
    ELSE [value |-> hook[1], hook |-> <<>>]

\* move is <<>> when the attribute is deleted
data_State_movehook_setter(hook, move) == IF move # <<>> THEN move ELSE <<>>

\* the objects written to movehook
Moves == { "move1", "move2", "None" }

InitHook ==
    \E dofill \in BOOLEAN :
        LET r == data_State___init___impl(NewObject, <<>>, dofill)
        IN  /\ r.err = "none"
            /\ ss_solved = r.s.ss_solved
            /\ ss_digits = r.s.ss_digits
            /\ ss_grconfig = r.s.ss_grconfig
            /\ ss_skeys = r.s.ss_skeys
            /\ ss_houses = r.s.ss_houses
            /\ ss_grid = r.s.ss_grid
            /\ last = Call("__init__", "none", <<>>)
            /\ ki = <<>>
            /\ ki_log = NoLog
            /\ ss_movehook = <<>>
            /\ NoSets

\* state.movehook = move, and del state.movehook; rkey holds what is written
MovehookSet ==
    \E move \in { <<v>> : v \in Moves } \cup { <<>> } :
        /\ ss_movehook' = data_State_movehook_setter(ss_movehook, move)
        /\ last' = Call("movehook_set", "none", move)
        /\ UNCHANGED <<ss_solved, ss_digits, ss_grconfig, ss_skeys, ss_houses, ss_grid, ki, ki_log,
                       cs, cs_iter, cs_log>>

\* state.movehook; rkey holds what is returned
MovehookGet ==
    LET r == data_State_movehook_getter(ss_movehook)
    IN  /\ ss_movehook' = r.hook
        /\ last' = Call("movehook_get", "none", <<r.value>>)
        /\ UNCHANGED <<ss_solved, ss_digits, ss_grconfig, ss_skeys, ss_houses, ss_grid, ki, ki_log,
                       cs, cs_iter, cs_log>>

NextHook ==
    \/ CandidatesAssign
    \/ MovehookSet
    \/ MovehookGet

SpecHook == InitHook /\ [][NextHook]_vars

\* C23: movehook is a mailbox with one slot. A read returns the value
\* written last and empties the slot, so that a further read before another
\* write returns None; a read of the empty slot returns None and leaves it
\* empty; a write puts its value in the slot, replacing what was there; no
\* other call changes the slot.
C23_Movehook ==
    [][ /\ last'.op = "movehook_get" =>
              /\ last'.rkey = IF ss_movehook = <<>> THEN << "None" >> ELSE ss_movehook
              /\ ss_movehook' = <<>>
        /\ last'.op = "movehook_set" => ss_movehook' = last'.rkey
        /\ last'.op \notin { "movehook_get", "movehook_set" } => ss_movehook' = ss_movehook
      ]_vars

\* a read has returned the move that was written and has emptied the slot
C23_Witness ==
    /\ last.op = "movehook_get"
    /\ last.rkey = << "move2" >>
    /\ ss_movehook = <<>>

\* ------------------------------------------------------------------------
\* CandidateSet: an object is [cs_set, cs_iterpos], cs_set being the set of
\* the bits that are 1 in the uint16_t.
build_set(set) == [cs_set |-> set \cap TERMS, cs_iterpos |-> 0]

\* (uint16_t)x for x >= 0, as the set of its bits
BitsOf(x) == { i \in AllBits : (x \div Pow2[i]) % 2 = 1 }

\* the tuple (cs_set, cs_iterpos) of two ints
data_CandidateSet___getstate___impl(self) == << CandsInt(self.cs_set), self.cs_iterpos >>

\* state is a tuple of two ints
data_CandidateSet___setstate__(self, state) ==
    LET x == state[1]
        y == state[2]
    IN  IF x >= NUMROWS \/ x < 0 \/ y < 0 THEN [cs |-> self, err |-> "ValueError"]
        ELSE [cs |-> [cs_set |-> BitsOf(x), cs_iterpos |-> y], err |-> "none"]

cs_seq_length(self) == isizes[CandsInt(self.cs_set)]

cs_num_invert(a) == build_set(AllBits \ a.cs_set)

cs_num_and(a, b) == build_set(a.cs_set \cap b.cs_set)

cs_num_or(a, b) == build_set(a.cs_set \cup b.cs_set)

\* a comparison in which < and > go by the sizes alone
richcompare_by_size(a, b, op) ==
    CASE op = "==" -> a.cs_set = b.cs_set
      [] op = "!=" -> a.cs_set # b.cs_set
      [] op = "<=" -> (a.cs_set \cup b.cs_set) = b.cs_set
      [] op = ">=" -> (a.cs_set \cup b.cs_set) = a.cs_set
      [] op = "<" -> cs_seq_length(a) < cs_seq_length(b)
      [] op = ">" -> cs_seq_length(a) > cs_seq_length(b)

data_CandidateSet_richcompare(a, b, op) ==
    CASE op = "==" -> a.cs_set = b.cs_set
      [] op = "!=" -> a.cs_set # b.cs_set
      [] op = "<=" -> (a.cs_set \cup b.cs_set) = b.cs_set
      [] op = ">=" -> (a.cs_set \cup b.cs_set) = a.cs_set
      [] op = "<" -> (a.cs_set \cup b.cs_set) = b.cs_set /\ cs_seq_length(a) < cs_seq_length(b)
      [] op = ">" -> (a.cs_set \cup b.cs_set) = a.cs_set /\ cs_seq_length(a) > cs_seq_length(b)

\* an iter that hands out a set at the position of the set it was asked of
data_CandidateSet_iter_at_position(self) ==
    [cs_set |-> self.cs_set \cap TERMS, cs_iterpos |-> self.cs_iterpos]

data_CandidateSet_iter(self) == build_set(self.cs_set)

\* value is <<digit>>, or <<>> for NULL (StopIteration)
data_CandidateSet_iternext(self) ==
    LET ahead == { i \in self.cs_iterpos .. (NUMROWS - 1) : i \in self.cs_set }
    IN  IF ahead = {}
        THEN [value |-> <<>>,
              cs |-> [self EXCEPT !.cs_iterpos = IF @ < NUMROWS THEN NUMROWS ELSE @]]
        ELSE LET i == CHOOSE m \in ahead : \A n \in ahead : m <= n
             IN  [value |-> <<i>>, cs |-> [self EXCEPT !.cs_iterpos = i + 1]]

\* ------------------------------------------------------------------------
\* A CandidateSet, the iterators asked of it and its pickling. cs is <<set>>;
\* cs_iter[name] is <<>> or <<iterator>>; cs_log[name] is what next() has
\* returned so far on that iterator.
IterNames == { "first", "second" }

NoDigits == [digits |-> <<>>, stopped |-> FALSE]

\* the sets the traversals start from
IterMasks == { {}, { 0, 3 }, { 0, 3, 8 } }

\* the ints handed to __setstate__ as the mask and as the position
MaskInts == { -1, 0, 8, 9, 511, 512 }

PosInts == { -1, 0, 9, 10 }

InitCs ==
    /\ ss_solved = NewObject.ss_solved
    /\ ss_digits = NewObject.ss_digits
    /\ ss_grconfig = NewObject.ss_grconfig
    /\ ss_skeys = NewObject.ss_skeys
    /\ ss_houses = NewObject.ss_houses
    /\ ss_grid = NewObject.ss_grid
    /\ last = Call("__new__", "none", <<>>)
    /\ ki = <<>>
    /\ ki_log = NoLog
    /\ ss_movehook = <<>>
    /\ \E set \in IterMasks : cs = << build_set(set) >>
    /\ cs_iter = [name \in IterNames |-> <<>>]
    /\ cs_log = [name \in IterNames |-> NoDigits]

\* a call on the CandidateSets leaves the State and its iterators alone
StateUntouched ==
    UNCHANGED <<ss_solved, ss_digits, ss_grconfig, ss_skeys, ss_houses, ss_grid, ki, ki_log,
                ss_movehook>>

Logged(log, value) ==
    IF value = <<>> THEN [log EXCEPT !.stopped = TRUE]
    ELSE [log EXCEPT !.digits = Append(@, value[1])]

\* name = iter(set)
CsIter ==
    \E name \in IterNames :
        /\ cs_iter' = [cs_iter EXCEPT ![name] = << data_CandidateSet_iter(cs[1]) >>]
        /\ cs_log' = [cs_log EXCEPT ![name] = NoDigits]
        /\ last' = Call("iter(set)", "none", <<>>)
        /\ UNCHANGED cs
        /\ StateUntouched

\* next(name)
CsIterNext ==
    \E name \in IterNames :
        /\ cs_iter[name] # <<>>
        /\ LET r == data_CandidateSet_iternext(cs_iter[name][1])
           IN  /\ cs_iter' = [cs_iter EXCEPT ![name] = << r.cs >>]
               /\ cs_log' = [cs_log EXCEPT ![name] = Logged(@, r.value)]
               /\ last' = Call("next(iterator)", "none", r.value)
               /\ UNCHANGED cs
               /\ StateUntouched

\* set.__setstate__((x, y))
CsSetState ==
    \E x \in MaskInts, y \in PosInts :
        LET r == data_CandidateSet___setstate__(cs[1], <<x, y>>)
        IN  /\ cs' = << r.cs >>
            /\ last' = Call("__setstate__", r.err, <<>>)
            /\ UNCHANGED <<cs_iter, cs_log>>
            /\ StateUntouched

\* set = CandidateSet().__setstate__(set.__getstate__()): the copy takes the
\* place of the set when __setstate__ has accepted the tuple
CsPickle ==
    LET state == data_CandidateSet___getstate___impl(cs[1])
        r == data_CandidateSet___setstate__(build_set({}), state)
    IN  /\ cs' = IF r.err = "none" THEN << r.cs >> ELSE cs
        /\ last' = Call("pickle", r.err, <<>>)
        /\ UNCHANGED <<cs_iter, cs_log>>
        /\ StateUntouched

NextCs ==
    \/ CsIter
    \/ CsIterNext
    \/ CsSetState
    \/ CsPickle

SpecCs == InitCs /\ [][NextCs]_vars

\* __setstate__ accepts the tuple (x, y)
Accepts(x, y) == data_CandidateSet___setstate__(build_set({}), <<x, y>>).err = "none"

\* C24: __setstate__ accepts (mask, iter_pos) exactly when 0 <= mask <= 511
\* and 0 <= iter_pos <= 9, and a CandidateSet that goes through
\* __getstate__ and __setstate__ comes out with the same mask and the same
\* iteration position.
C24_SetStateRoundTrip ==
    /\ \A x \in MaskInts, y \in PosInts :
          Accepts(x, y) <=> (x \in 0 .. 511 /\ y \in 0 .. NUMROWS)
    /\ LET r == data_CandidateSet___setstate__(build_set({}),
                     data_CandidateSet___getstate___impl(cs[1]))
       IN  r.err = "none" /\ r.cs = cs[1]

\* ------------------------------------------------------------------------
\* The algebra of CandidateSets: cs is <<A>> for each of the 512 sets A; A
\* is compared and united with other sets, complemented and measured.
CmpOps == { "==", "!=", "<=", ">=", "<", ">" }

\* the right operands
CmpSets == { { 0, 3 }, { 0, 3, 8 } }

InitSet ==
    /\ ss_solved = NewObject.ss_solved
    /\ ss_digits = NewObject.ss_digits
    /\ ss_grconfig = NewObject.ss_grconfig
    /\ ss_skeys = NewObject.ss_skeys
    /\ ss_houses = NewObject.ss_houses
    /\ ss_grid = NewObject.ss_grid
    /\ last = Call("__new__", "none", <<>>)
    /\ ki = <<>>
    /\ ki_log = NoLog
    /\ ss_movehook = <<>>
    /\ \E set \in SUBSET TERMS : cs = << build_set(set) >>
    /\ cs_iter = <<>>
    /\ cs_log = <<>>

\* A op B; rkey holds the result
CsCompare ==
    \E op \in CmpOps, set \in CmpSets :
        /\ last' = Call(op, "none", << data_CandidateSet_richcompare(cs[1], build_set(set), op) >>)
        /\ UNCHANGED <<cs, cs_iter, cs_log>>
        /\ StateUntouched

\* len(A)
CsLen ==
    /\ last' = Call("len", "none", << cs_seq_length(cs[1]) >>)
    /\ UNCHANGED <<cs, cs_iter, cs_log>>
    /\ StateUntouched

\* A = ~A
CsInvert ==
    /\ cs' = << cs_num_invert(cs[1]) >>
    /\ last' = Call("~", "none", <<>>)
    /\ UNCHANGED <<cs_iter, cs_log>>
    /\ StateUntouched

\* A = A | B
CsOr ==
    \E set \in CmpSets :
        /\ cs' = << cs_num_or(cs[1], build_set(set)) >>
        /\ last' = Call("|", "none", <<>>)
        /\ UNCHANGED <<cs_iter, cs_log>>
        /\ StateUntouched

NextSet ==
    \/ CsCompare
    \/ CsLen
    \/ CsInvert
    \/ CsOr

SpecSet == InitSet /\ [][NextSet]_vars

\* A op B for the set A of the state and the set with the digits of set
Cmp(op, set) == data_CandidateSet_richcompare(cs[1], build_set(set), op)

\* C25: for all CandidateSets A and B, A <= B iff A is a subset of B;
\* A < B iff A is a subset of B with fewer digits, that is a strict subset;
\* >= and > are the mirror images; for incomparable A and B each of <, <=,
\* > and >= is false; A <= B and B <= A hold together iff A == B.
C25_RichCompare ==
    last.op = "__new__" =>
        LET A == cs[1].cs_set
        IN  \A B \in SUBSET TERMS :
                /\ Cmp("<=", B) <=> A \subseteq B
                /\ Cmp("<", B) <=> (A \subseteq B /\ Cardinality(A) < Cardinality(B))
                /\ Cmp("<", B) <=> (A \subseteq B /\ A # B)
                /\ Cmp(">=", B) <=> B \subseteq A
                /\ Cmp(">", B) <=> (B \subseteq A /\ A # B)
                /\ (~(A \subseteq B) /\ ~(B \subseteq A)) =>
                      ~Cmp("<", B) /\ ~Cmp("<=", B) /\ ~Cmp(">", B) /\ ~Cmp(">=", B)
                /\ (Cmp("<=", B) /\ Cmp(">=", B)) <=> Cmp("==", B)
                /\ Cmp("==", B) <=> A = B

\* a set with fewer digits than the set it was compared with, and
\* incomparable with it, has been found not less than it
C25_Witness ==
    /\ last.op = "<"
    /\ last.rkey = << FALSE >>
    /\ cs[1].cs_set = { 4 }

\* C26: the interned size of every mask is the number of its bits, so that
\* len(A) is the number of digits of A, len(A | B) = len(A) + len(B) -
\* len(A & B) for all A and B, and ~A has 9 - len(A) digits and no bit above
\* bit 8.
C26_Sizes ==
    last.op = "__new__" =>
        LET A == cs[1]
        IN  /\ isizes[CandsInt(A.cs_set)] = Cardinality(A.cs_set)
            /\ cs_seq_length(A) = Cardinality(A.cs_set)
            /\ \A set \in SUBSET TERMS :
                  LET B == build_set(set)
                  IN  cs_seq_length(cs_num_or(A, B))
                         = cs_seq_length(A) + cs_seq_length(B) - cs_seq_length(cs_num_and(A, B))
            /\ cs_seq_length(cs_num_invert(A)) = NUMROWS - cs_seq_length(A)
            /\ cs_num_invert(A).cs_set \subseteq TERMS

\* len has returned 5 for a set of five digits
C26_Witness ==
    /\ last.op = "len"
    /\ last.rkey = << 5 >>
    /\ cs[1].cs_set = TERMS \ { 0, 3, 5, 8 }

\* what the iterator name has yielded: digits of its set in ascending
\* order, none left out below the last one, and all of them once it has
\* stopped
TraversalOf(name) ==
    LET it == cs_iter[name][1]
        digits == cs_log[name].digits
        yielded == { digits[n] : n \in 1 .. Len(digits) }
    IN  /\ yielded \subseteq it.cs_set
        /\ \A n \in 1 .. (Len(digits) - 1) : digits[n] < digits[n + 1]
        /\ Len(digits) > 0 =>
              \A d \in it.cs_set : d <= digits[Len(digits)] => d \in yielded
        /\ cs_log[name].stopped =>
              /\ yielded = it.cs_set
              /\ Len(digits) = Cardinality(it.cs_set)

\* C27: an iterator of a CandidateSet yields each digit of the set once, in
\* ascending order, and then stays exhausted; iter(set) returns a fresh
\* traversal that starts at digit 0 and leaves the set as it was; two
\* iterators of one set advance independently of each other.
C27_Iteration ==
    [][ /\ \A name \in IterNames : cs_iter'[name] # <<>> => TraversalOf(name)'
        /\ last'.op = "iter(set)" =>
              /\ cs' = cs
              /\ \E name \in IterNames :
                    /\ cs_iter'[name] = << [cs_set |-> cs[1].cs_set, cs_iterpos |-> 0] >>
                    /\ cs_log'[name] = NoDigits
                    /\ \A other \in IterNames \ { name } :
                          cs_iter'[other] = cs_iter[other] /\ cs_log'[other] = cs_log[other]
        /\ last'.op = "next(iterator)" =>
              /\ cs' = cs
              /\ \E name \in IterNames :
                    /\ cs_log[name].stopped =>
                          last'.rkey = <<>> /\ cs_log'[name] = cs_log[name]
                    /\ \A other \in IterNames \ { name } :
                          cs_iter'[other] = cs_iter[other] /\ cs_log'[other] = cs_log[other]
      ]_vars

\* two iterators of the set {0, 3, 8}: one has yielded its three digits and
\* stopped, the other has yielded 0 only
C27_Witness ==
    /\ cs[1] = [cs_set |-> { 0, 3, 8 }, cs_iterpos |-> 0]
    /\ cs_iter["first"] # <<>>
    /\ cs_iter["second"] # <<>>
    /\ cs_log["first"] = [digits |-> << 0, 3, 8 >>, stopped |-> TRUE]
    /\ cs_log["second"] = [digits |-> << 0 >>, stopped |-> FALSE]
    /\ cs_iter["second"][1].cs_set = { 0, 3, 8 }

\* C28: in every reachable state len(clues) is the number of solved cells
\* and len(candidates) is 81 minus that number; a clues lookup returns the
\* digit of a solved cell and raises KeyError for an unsolved one; a
\* candidates lookup returns the mask of an unsolved cell and raises
\* KeyError for a solved one, whatever mask the solved cell has kept.
C28_ViewLookups ==
    /\ data_clues_length(Self) = Cardinality(SolvedCells)
    /\ data_candidates_length(Self) = GRIDSIZE - Cardinality(SolvedCells)
    /\ \A i \in 0 .. (GRIDSIZE - 1) :
          LET key == <<ROW(i), COL(i)>>
              clue == data_clues_subscript(Self, key)
              mask == data_candidates_subscript(Self, key)
          IN  IF FilledAt(ss_grid, i)
              THEN /\ clue = [value |-> << ss_grid[i].ci_value >>, err |-> "none"]
                   /\ mask = [value |-> <<>>, err |-> "KeyError"]
              ELSE /\ clue = [value |-> <<>>, err |-> "KeyError"]
                   /\ mask = [value |-> << ss_grid[i].ci_candidates >>, err |-> "none"]

\* a clue was assigned to a cell that keeps a mask: the candidates lookup
\* of the cell raises KeyError and its clues lookup returns the digit
C28_Witness ==
    /\ last.op = "clues_setitem"
    /\ last.err = "none"
    /\ FilledAt(ss_grid, 0)
    /\ ss_grid[0].ci_candidates # {}
    /\ data_candidates_subscript(Self, <<0, 0>>).err = "KeyError"
    /\ data_clues_subscript(Self, <<0, 0>>).value = << ss_grid[0].ci_value >>
    /\ data_clues_length(Self) > 0

\* the candidate masks of all cells of s and of t are the same
SameMasks(s, t) ==
    \A c \in Cells : s.ss_grid[c].ci_candidates = t.ss_grid[c].ci_candidates

\* add_candidates(change) and then remove_candidates(change) on s
AddThenRemove(s, change) ==
    data_State_remove_candidates(data_State_add_candidates(s, change).s, change)

\* every set of the change map holds only candidates its cell already has
NoNewBits(s, change) ==
    \A i \in 1 .. Len(change) : change[i][2] \subseteq MaskAt(s, change[i][1])

\* every set of the change map holds only candidates its cell does not have
OnlyNewBits(s, change) ==
    \A i \in 1 .. Len(change) : change[i][2] \cap MaskAt(s, change[i][1]) = {}

\* C29 as stated: for a change map over unsolved cells whose sets are
\* subsets of the masks the cells already have, add_candidates and then
\* remove_candidates of the same map leave every mask as it was.
C29_AddRemoveNoNewBits ==
    \A change \in ProbeChanges :
        (OnUnsolved(Self, change) /\ NoNewBits(Self, change)) =>
            SameMasks(AddThenRemove(Self, change).s, Self)

\* C29 as amended: for a change map over unsolved cells whose sets are
\* disjoint from the masks the cells already have, add_candidates and then
\* remove_candidates of the same map leave every mask as it was, also when
\* the removal raises ContradictionError; and for a change map over
\* unsolved cells this is the only case in which the masks come back.
C29_AddRemoveOnlyNewBits ==
    \A change \in ProbeChanges :
        OnUnsolved(Self, change) =>
            (OnlyNewBits(Self, change) <=> SameMasks(AddThenRemove(Self, change).s, Self))

\* a removal left cell (0, 0) unsolved with candidates but without digit 0:
\* adding digit 0 changes its mask and removing it again restores the mask;
\* and cell (0, 1) is unsolved with no candidate, so that adding and
\* removing digit 0 there ends in ContradictionError with the mask restored
C29_Witness ==
    LET one == << << <<0, 0>>, {0} >> >>
        two == << << <<0, 1>>, {0} >> >>
        added == data_State_add_candidates(Self, one)
    IN  /\ ~KeySolved(Self, <<0, 0>>)
        /\ ~KeySolved(Self, <<0, 1>>)
        /\ MaskAt(Self, <<0, 0>>) # {}
        /\ 0 \notin MaskAt(Self, <<0, 0>>)
        /\ MaskAt(Self, <<0, 1>>) = {}
        /\ added.err = "none"
        /\ MaskAt(added.s, <<0, 0>>) # MaskAt(Self, <<0, 0>>)
        /\ AddThenRemove(Self, one).err = "none"
        /\ SameMasks(AddThenRemove(Self, one).s, Self)
        /\ AddThenRemove(Self, two).err = "ContradictionError"
        /\ SameMasks(AddThenRemove(Self, two).s, Self)

\* C30: del candidates[key] does what candidates[key] = CandidateSet() does.
\* On an unsolved key it succeeds (no ContradictionError), empties the
\* cell's mask, lowers cand_count[d] of the cell's three houses by one for
\* every digit d of the old mask and changes nothing else, and the key is
\* still unsolved and still a key of the candidates view, whose length is
\* unchanged; on a solved key it raises KeyError and changes nothing.
C30_ViewDelete ==
    \A key \in Keys :
        LET del == data_candidates_ass_sub(Self, key, <<>>)
            old == MaskAt(Self, key)
            three == KeyHouses(key)
        IN  /\ del = data_candidates_ass_sub(Self, key, << {} >>)
            /\ IF KeySolved(Self, key)
               THEN /\ del.err = "KeyError"
                    /\ del.s = Self
               ELSE /\ del.err = "none"
                    /\ MaskAt(del.s, key) = {}
                    /\ \A c \in Cells \ { INDEX(key[1], key[2]) } :
                          del.s.ss_grid[c] = ss_grid[c]
                    /\ \A h \in Houses \ three : del.s.ss_houses[h] = ss_houses[h]
                    /\ \A h \in three :
                          /\ del.s.ss_houses[h].hi_solved = ss_houses[h].hi_solved
                          /\ \A d \in TERMS :
                                del.s.ss_houses[h].hi_cand_count[d] =
                                    ss_houses[h].hi_cand_count[d]
                                    - (IF d \in old THEN 1 ELSE 0)
                    /\ del.s.ss_solved = ss_solved
                    /\ del.s.ss_digits = ss_digits
                    /\ del.s.ss_skeys = ss_skeys
                    /\ ~KeySolved(del.s, key)
                    /\ data_candidates_subscript(del.s, key) = [value |-> << {} >>, err |-> "none"]
                    /\ data_candidates_length(del.s) = data_candidates_length(Self)

\* del candidates[(0, 0)] has emptied an unsolved cell while (0, 1) holds a
\* clue: the view still has 80 keys, (0, 0) among them with the empty set,
\* and deleting (0, 1) raises KeyError
C30_Witness ==
    /\ last.op = "candidates_delitem"
    /\ last.err = "none"
    /\ ~KeySolved(Self, <<0, 0>>)
    /\ MaskAt(Self, <<0, 0>>) = {}
    /\ KeySolved(Self, <<0, 1>>)
    /\ data_candidates_length(Self) = GRIDSIZE - 1
    /\ data_candidates_subscript(Self, <<0, 0>>) = [value |-> << {} >>, err |-> "none"]
    /\ data_candidates_ass_sub(Self, <<0, 1>>, <<>>).err = "KeyError"
    /\ \E d \in TERMS : ss_houses[2 * NUMROWS].hi_cand_count[d] < NUMROWS - 1

\* the number of the unsolved cells of house h whose mask holds digit d
OpenHolding(h, d) ==
    Cardinality({ i \in HouseMembers[h] : ~Solved(Self, i) /\ d \in ss_grid[i].ci_candidates })

\* arguments handed to the house queries
QueryHouses == { -1, 0, NUMROWS, 2 * NUMROWS, 3 * NUMROWS - 1, 3 * NUMROWS }

\* the house queries read the aggregates: candidate_in_houses(key, d) is the triple of
\* the stored counts of d at the cell's box index, at 9 + col and at
\* 18 + row; candidates_from_house(h) is the nine stored counts of house h
\* for h in 0..26 and fails for any other h.
HouseQueriesReadAggregates ==
    /\ \A key \in ExampleKeys, d \in TERMS :
          data_State_candidate_in_houses_impl(Self, key, d) =
              [value |-> << << ss_houses[BoxOf(key[1], key[2])].hi_cand_count[d],
                              ss_houses[NUMROWS + key[2]].hi_cand_count[d],
                              ss_houses[2 * NUMROWS + key[1]].hi_cand_count[d] >> >>,
               err |-> "none"]
    /\ \A h \in QueryHouses :
          LET r == data_State_candidates_from_house_impl(Self, h)
          IN  IF h \in Houses
              THEN /\ r.err = "none"
                   /\ Len(r.value[1]) = NUMROWS
                   /\ \A d \in TERMS : r.value[1][d + 1] = ss_houses[h].hi_cand_count[d]
              ELSE r.err # "none"

\* C31: candidate_in_houses(key, d) returns the triple (box count, column
\* count, row count) read from the house aggregates at the cell's box index
\* in 0..8, at 9 + col and at 18 + row, and in every reachable state each
\* component is the number of the unsolved cells of that box, column and
\* row whose mask holds d; candidates_from_house(h) returns the nine counts
\* of house h for h in 0..26 and fails for any other h.
C31_HouseQueries ==
    /\ HouseQueriesReadAggregates
    /\ \A key \in ExampleKeys, d \in TERMS :
          data_State_candidate_in_houses_impl(Self, key, d).value =
              << << OpenHolding(BoxOf(key[1], key[2]), d),
                    OpenHolding(NUMROWS + key[2], d),
                    OpenHolding(2 * NUMROWS + key[1], d) >> >>

\* C32: when __init__ is run again on an existing State with clues C, all
\* house aggregates, solved_total, solved_keys and digit_count are zeroed
\* before the clues are applied: afterwards solved_total is the number of
\* clues, solved_keys is the set of their keys, every house's solved_count
\* is the number of clues lying in it, and digit_count[d] is the number of
\* clues of C with digit d, whatever the State held before.
C32_ReinitResets ==
    [][(last'.op = "state.__init__(clues, dofill)" /\ last'.err = "none") =>
          LET C == last'.rkey
              items == 1 .. Len(C)
          IN  /\ ss_solved' = Len(C)
              /\ ss_skeys' = { C[i][1] : i \in items }
              /\ \A h \in Houses :
                    ss_houses'[h].hi_solved =
                        Cardinality({ i \in items : h \in KeyHouses(C[i][1]) })
              /\ \A d \in TERMS :
                    ss_digits'[d] = Cardinality({ i \in items : C[i][2] = d })]_vars

\* what __init__ does when run again: the State has the solved_total, the
\* solved_keys and the houses' solved_count of its new clues, and
\* digit_count, which __init__ does not clear, has grown by the new clues
ReinitResetsButDigits ==
    [][(last'.op = "state.__init__(clues, dofill)" /\ last'.err = "none") =>
          LET C == last'.rkey
              items == 1 .. Len(C)
          IN  /\ ss_solved' = Len(C)
              /\ ss_skeys' = { C[i][1] : i \in items }
              /\ \A h \in Houses :
                    ss_houses'[h].hi_solved =
                        Cardinality({ i \in items : h \in KeyHouses(C[i][1]) })
              /\ \A d \in TERMS :
                    ss_digits'[d] = ss_digits[d] + Cardinality({ i \in items : C[i][2] = d })]_vars

\* the values the probe variable of order_random can hold
ProbeValues == 0 .. (RANDOM_PERIOD - 1)

\* C33: for every explored set of solved cells and every content of the
\* random buffer the construction of an order_random iterator returns: from
\* any starting value the probe recurrence k <- (5k + 1) mod 128 comes to
\* every index 0..80 within one period of 128 passes, so the second loop
\* has filled ki_data with the remaining unsolved cells after at most 128
\* passes.
C33_OrderRandomTerminates ==
    /\ last.op = "__init__" =>
          \A k0 \in ProbeValues :
              LET start == [key |-> k0, seen |-> {}, data |-> <<>>]
                  walk == random_walk(ss_grid, start, GRIDSIZE + 1, RANDOM_PERIOD)
              IN  /\ walk.seen = Cells
                  /\ { walk.data[n] : n \in 1 .. Len(walk.data) } = UnsolvedCells
                  /\ Len(walk.data) = GRIDSIZE - ss_solved
    /\ ki = <<>> =>
          \A tries \in ByteSeqs(numtries(Self)) :
              LET size == GRIDSIZE - ss_solved
                  first == random_tries(ss_grid, tries, 1, {}, <<>>, 0, size)
                  rest == random_walk(ss_grid, first, size, RANDOM_PERIOD)
              IN  /\ data_State_order_random_impl(Self, tries).returns
                  /\ size > 0 => Len(rest.data) = size

\* order_random has returned an iterator over MaxOpen cells for random
\* bytes that found no unsolved cell, so that every key of the iterator was
\* found by the second loop
C33_Witness ==
    /\ ki # <<>>
    /\ ki_log.order = "order_random"
    /\ GRIDSIZE - ss_solved = MaxOpen
    /\ \E tries \in ByteSeqs(numtries(Self)) :
          /\ random_tries(ss_grid, tries, 1, {}, <<>>, 0, MaxOpen).data = <<>>
          /\ data_State_order_random_impl(Self, tries).returns
          /\ data_State_order_random_impl(Self, tries).ki.ki_data = ki[1].ki_data
          /\ Len(ki[1].ki_data) = MaxOpen

\* a key no cell has
BadKey == <<NUMROWS, 0>>

\* change maps with an entry the call fails on: the maps of ChangeDicts (an
\* entry of theirs may lie on a solved cell), and some of them with an
\* entry on BadKey after their first entry
FailChanges ==
    ChangeDicts
        \cup { << d[1], <<BadKey, {0}>> >> :
                 d \in { e \in ChangeDicts : Len(e) = 1 /\ e[1][2] = {0} } }
        \cup { << d[1], <<BadKey, {0}>>, d[2] >> :
                 d \in { e \in ChangeDicts : Len(e) = 2 /\ e[1][2] = TERMS /\ e[2][2] = {0} } }

\* the entries of change a call on s fails on
FailingEntries(s, change) ==
    { i \in 1 .. Len(change) :
        IF KeyOk(change[i][1]) THEN KeySolved(s, change[i][1]) ELSE TRUE }

FirstOf(set) == CHOOSE i \in set : \A j \in set : i <= j

\* by how much the stored cand_count[d] of house h exceeds the number of
\* the unsolved cells of h whose mask holds d
Drift(s, h, d) ==
    s.ss_houses[h].hi_cand_count[d]
        - Cardinality({ i \in HouseMembers[h] : ~Solved(s, i) /\ d \in s.ss_grid[i].ci_candidates })

\* the houses the keys of Keys lie in
KeysHouses == UNION { KeyHouses(key) : key \in Keys }

\* r is the outcome on Self of a call that failed at entry j of change;
\* Applies is what the call does to a mask
FailedAt(r, change, j, Applies(_, _)) ==
    /\ r.err \in { "KeyError", "TypeError" }
    /\ r.s.ss_solved = ss_solved
    /\ r.s.ss_digits = ss_digits
    /\ r.s.ss_skeys = ss_skeys
    /\ \A i \in 1 .. (j - 1) :
          MaskAt(r.s, change[i][1]) = Applies(MaskAt(Self, change[i][1]), change[i][2])
    /\ \A i \in j .. Len(change) :
          KeyOk(change[i][1]) =>
              r.s.ss_grid[INDEX(change[i][1][1], change[i][1][2])]
                  = ss_grid[INDEX(change[i][1][1], change[i][1][2])]
    /\ \A c \in Cells \ { INDEX(change[i][1][1], change[i][1][2]) : i \in 1 .. (j - 1) } :
          r.s.ss_grid[c] = ss_grid[c]
    /\ \A i \in 1 .. (j - 1) : ~KeySolved(r.s, change[i][1])
    /\ \A h \in Houses \ KeysHouses : r.s.ss_houses[h] = ss_houses[h]
    \* Drift(r.s, h, d) = Drift(Self, h, d): the cells of the entries before
    \* j alone have changed, so the count has moved as their masks have
    /\ \A h \in KeysHouses, d \in TERMS :
          LET there == { i \in 1 .. (j - 1) : h \in KeyHouses(change[i][1]) }
          IN  r.s.ss_houses[h].hi_cand_count[d] - ss_houses[h].hi_cand_count[d] =
                  Cardinality({ i \in there : d \in MaskAt(r.s, change[i][1]) })
                      - Cardinality({ i \in there : d \in MaskAt(Self, change[i][1]) })

UnionOf(mask, set) == mask \cup set

DifferenceOf(mask, set) == mask \ set

\* The calls that decide what add_candidates and remove_candidates fail on
\* and what they leave behind: clues are set and deleted, masks are added
\* to, taken from and filled, from every constructed State.
NextFail ==
    \/ CluesAssign
    \/ CluesDelete
    \/ AddCandidates
    \/ RemoveCandidates
    \/ CandidatesFill

SpecFail == Init /\ [][NextFail]_vars

\* C34: when add_candidates or remove_candidates fails on an input error at
\* some entry (a solved coordinate or a key outside the grid), the entries
\* before it in the iteration order of the mapping are fully applied, the
\* failing entry and those after it are not applied, and on return every
\* house's cand_count is as far from the recount over the cell table as it
\* was before the call: it still equals the recount where it did, and no
\* entry is left half applied.
C34_PartialFailure ==
    \A change \in FailChanges :
        LET failing == FailingEntries(Self, change)
        IN  failing # {} =>
                LET j == FirstOf(failing)
                IN  /\ FailedAt(data_State_add_candidates(Self, change), change, j, UnionOf)
                    /\ FailedAt(data_State_remove_candidates(Self, change), change, j, DifferenceOf)

\* add_candidates has failed with KeyError on the solved cell (0, 1) after
\* it had added to the unsolved cell (0, 0), whose houses count what their
\* unsolved cells hold
C34_Witness ==
    /\ last.op = "add_candidates"
    /\ last.err = "KeyError"
    /\ ~KeySolved(Self, <<0, 0>>)
    /\ KeySolved(Self, <<0, 1>>)
    /\ MaskAt(Self, <<0, 0>>) # {}
    /\ \A h \in KeysHouses, d \in TERMS : Drift(Self, h, d) = 0

\* ------------------------------------------------------------------------
\* Traversals of a State that is mutated while they run: an iterator is
\* asked for once, next() is called at any time, also after StopIteration,
\* and clues and masks are set and deleted in between.
LiveOpen == { <<0, 0>>, <<0, 1>>, <<1, 0>> }

\* the cells whose clue is deleted and assigned during a traversal
LiveKeys == { <<0, 1>>, <<8, 8>> }

\* the cells whose mask is assigned during a traversal, and the masks
LiveMaskKeys == { <<0, 0>> }
LiveSets == { {0}, {0, 1} }

\* the counts order_exactly_n is asked with
LiveCounts == { 0, 1 }

InitLive ==
    \E dofill \in BOOLEAN :
        LET r == data_State___init___impl(NewObject, IterClues(LiveOpen), dofill)
        IN  /\ r.err = "none"
            /\ ss_solved = r.s.ss_solved
            /\ ss_digits = r.s.ss_digits
            /\ ss_grconfig = r.s.ss_grconfig
            /\ ss_skeys = r.s.ss_skeys
            /\ ss_houses = r.s.ss_houses
            /\ ss_grid = r.s.ss_grid
            /\ last = Call("__init__", "none", <<>>)
            /\ ki = <<>>
            /\ ki_log = NoLog
            /\ ss_movehook = <<>>
            /\ NoSets

LiveCluesAssign ==
    \E key \in LiveKeys :
        LET r == data_clues_ass_sub(Self, key, << SolutionDigit(key[1], key[2]) >>)
        IN  /\ r.err = "none"
            /\ Becomes(r.s)
            /\ last' = Call("clues_setitem", r.err, <<>>)

LiveCluesDelete ==
    \E key \in LiveKeys :
        LET r == data_clues_ass_sub(Self, key, <<>>)
        IN  /\ r.err = "none"
            /\ Becomes(r.s)
            /\ last' = Call("clues_delitem", r.err, <<>>)

LiveCandidatesAssign ==
    \E key \in LiveMaskKeys, set \in LiveSets :
        LET r == data_candidates_ass_sub(Self, key, <<set>>)
        IN  /\ r.err = "none"
            /\ Becomes(r.s)
            /\ last' = Call("candidates_setitem", r.err, <<>>)

LiveOrder ==
    /\ ki = <<>>
    /\ \/ Made("order_simple", 0, data_State_order_simple_impl(Self))
       \/ Made("order_solved", 0, data_State_order_solved_impl(Self))
       \/ \E count \in LiveCounts :
             Made("order_exactly_n", count, data_State_order_exactly_n_impl(Self, count).ki[1])
       \/ \E tries \in ByteSeqs(numtries(Self)) :
             LET r == data_State_order_random_impl(Self, tries)
             IN  r.returns /\ Made("order_random", 0, r.ki)
       \/ Made("order_by_num_candidates", 0, data_State_order_by_num_candidates_impl(Self))
       \/ Made("order_by_num_candidates_rev", 0,
               data_State_order_by_num_candidates_rev_impl(Self))

\* next(iterator), at any time; the outcome keeps what was yielded
LiveNext ==
    /\ ki # <<>>
    /\ LET r == data_KeyIter_iternext(ss_grid, ki[1], 0)
       IN  /\ ki' = <<r.ki>>
           /\ ki_log' = IF r.value = <<>> THEN [ki_log EXCEPT !.stopped = TRUE]
                        ELSE [ki_log EXCEPT !.keys = Append(@, r.value[1])]
           /\ last' = Call("next", IF r.value = <<>> THEN "StopIteration" ELSE "none", r.value)
           /\ SameObject

NextLive ==
    \/ LiveCluesAssign
    \/ LiveCluesDelete
    \/ LiveCandidatesAssign
    \/ LiveOrder
    \/ LiveNext

SpecLive == InitLive /\ [][NextLive]_vars

\* the orders whose sequence is computed when the iterator is made
Precalculated == { "order_by_num_candidates", "order_by_num_candidates_rev", "order_random" }

\* the lazy orders, which look at the grid on every next()
Lazy == { "order_simple", "order_solved", "order_exactly_n" }

\* this step is a next() that has yielded a key
Yields == ki # <<>> /\ Len(ki_log'.keys) = Len(ki_log.keys) + 1

\* the key a yielding step has yielded, as an index
YieldedNow == KeyIndex(ki_log'.keys[Len(ki_log'.keys)])

\* C35: the sequence of an order_by_num_candidates,
\* order_by_num_candidates_rev or order_random iterator is fixed when the
\* iterator is made: whatever clues and masks are set or deleted
\* afterwards, ki_data and its length stay as they were made, every next()
\* yields the next key of ki_data (the previous one for the reversed
\* order), solved by now or not, and the iterator stops only after it has
\* yielded all of them.
C35_PrecalculatedIsFixed ==
    [][(ki # <<>> /\ ki_log.order \in Precalculated) =>
          LET data == ki[1].ki_data
              size == ki[1].ob_size
              done == Len(ki_log.keys)
          IN  /\ ki'[1].ki_data = data
              /\ ki'[1].ob_size = size
              /\ Len(data) = size
              /\ Yields =>
                    /\ done < size
                    /\ YieldedNow = IF ki_log.order = "order_by_num_candidates_rev"
                                    THEN data[size - done] ELSE data[done + 1]
              /\ (ki_log'.stopped /\ ~ki_log.stopped) => done = size
              /\ ~Yields => ki_log'.keys = ki_log.keys]_vars

\* a precalculated iterator has just yielded a cell that was solved after
\* the iterator was made
C35_Witness ==
    /\ ki # <<>>
    /\ ki_log.order \in Precalculated
    /\ last.op = "next"
    /\ last.err = "none"
    /\ KeySolved(Self, last.rkey[1])
    /\ last.rkey[1] = <<0, 1>>

\* the filter of a lazy order, on cell i of the grid as it is now
Filter(i) ==
    CASE ki_log.order = "order_simple" -> ~FilledAt(ss_grid, i)
      [] ki_log.order = "order_solved" -> FilledAt(ss_grid, i)
      [] ki_log.order = "order_exactly_n" ->
             ~FilledAt(ss_grid, i) /\ Cardinality(ss_grid[i].ci_candidates) = ki_log.count

\* C38: whatever clues and masks are set or deleted between the next()
\* calls, every coordinate an order_simple, order_solved or
\* order_exactly_n iterator yields has a greater row-major index than all
\* it has yielded before (so none is yielded twice and at most 81 are
\* yielded), and satisfies the iterator's filter (unsolved, solved, or
\* unsolved with exactly k candidates) in the state at that moment.
C38_LazyUnderMutation ==
    [][(ki_log.order \in Lazy /\ Yields) =>
          /\ \A n \in 1 .. Len(ki_log.keys) : KeyIndex(ki_log.keys[n]) < YieldedNow
          /\ YieldedNow \in Cells
          /\ Len(ki_log'.keys) <= GRIDSIZE
          /\ ss_grid' = ss_grid
          /\ Filter(YieldedNow)]_vars

\* a lazy iterator has yielded (8, 8) as an unsolved cell, after (0, 1),
\* which has been solved since it was yielded: (8, 8) held a clue when the
\* State was made, and the keys yielded no longer agree with the filter
C38_Witness ==
    /\ ki_log.order = "order_simple"
    /\ last.op = "next"
    /\ last.rkey = << <<8, 8>> >>
    /\ ~KeySolved(Self, <<8, 8>>)
    /\ \E n \in 1 .. Len(ki_log.keys) : ki_log.keys[n] = <<0, 1>>
    /\ KeySolved(Self, <<0, 1>>)

\* C39: once an iterator of any order has reported exhaustion it stays
\* exhausted: whatever has been set or deleted since, next() reports
\* exhaustion again, yields nothing and leaves the iterator as it is, so
\* that the position of a reversed iterator stays at -1.
C39_StaysExhausted ==
    (ki # <<>> /\ ki_log.stopped) =>
        /\ \A junk \in { 0, GRIDSIZE - 1 } :
              data_KeyIter_iternext(ss_grid, ki[1], junk) = [value |-> <<>>, ki |-> ki[1]]
        /\ ki_log.order = "order_by_num_candidates_rev" => ki[1].ki_pos = -1

\* an order_simple iterator was exhausted before the clue of (8, 8) was
\* deleted: an unsolved cell lies behind the last key it yielded, and
\* next() has reported exhaustion once more
C39_Witness ==
    /\ ki # <<>>
    /\ ki_log.stopped
    /\ ki_log.order = "order_simple"
    /\ last.op = "next"
    /\ last.err = "StopIteration"
    /\ ~KeySolved(Self, <<8, 8>>)
    /\ \A n \in 1 .. Len(ki_log.keys) : ki_log.keys[n] # <<8, 8>>

\* the calls that write candidate masks, and those that write clues
MaskCalls ==
    { "add_candidates", "remove_candidates", "candidates_setitem", "candidates_delitem",
      "candidates_clear", "candidates_fill" }

ClueCalls == { "clues_setitem", "clues_delitem" }

\* C36: add_candidates, remove_candidates, candidates-view assign and
\* delete, candidates.clear() and candidates.fill() change neither which
\* cells are solved, nor any cell's digit or group index, nor any house's
\* solved_count, nor solved_total, digit_count or solved_keys, whether they
\* return or raise; clues-view assign and delete change no cell's stored
\* candidate mask.
C36_Frame ==
    [][/\ last'.op \in MaskCalls =>
            /\ \A i \in Cells :
                  /\ ss_grid'[i].ci_value = ss_grid[i].ci_value
                  /\ ss_grid'[i].ci_group = ss_grid[i].ci_group
            /\ \A h \in Houses : ss_houses'[h].hi_solved = ss_houses[h].hi_solved
            /\ ss_solved' = ss_solved
            /\ ss_digits' = ss_digits
            /\ ss_skeys' = ss_skeys
       /\ last'.op \in ClueCalls =>
            \A i \in Cells : ss_grid'[i].ci_candidates = ss_grid[i].ci_candidates]_vars

\* candidates.fill() has run on a State with the clue (0, 0), whose cell
\* has kept a mask: the cell is still solved and counted by its row
C36_Witness ==
    /\ last.op = "candidates_fill"
    /\ KeySolved(Self, <<0, 0>>)
    /\ MaskAt(Self, <<0, 0>>) # {}
    /\ ~KeySolved(Self, <<0, 1>>)
    /\ MaskAt(Self, <<0, 1>>) # {}
    /\ ss_houses[2 * NUMROWS].hi_solved = 1
    /\ ss_solved = 1
    /\ ss_skeys = { <<0, 0>> }

\* keys and digits handed to the single-cell mutations that are rejected
RejectKeys == Keys \cup { BadKey, <<0, -1>> }
RejectDigits == { -1, 0, NUMROWS - 1, NUMROWS }

\* the call has failed and the State is as it was
Rejected(r) == r.err # "none" /\ r.s = Self

\* C37: a rejected single-cell mutation leaves the whole State as it was:
\* clues[key] = digit on a solved cell, with a digit outside 0..8 or with a
\* key outside the grid, del clues[key] on an unsolved cell, and
\* candidates[key] = set or del candidates[key] on a solved cell each fail
\* without a change to any cell, to solved_keys, solved_total, digit_count
\* or any house aggregate.
C37_RejectedMutation ==
    /\ \A key \in RejectKeys, digit \in RejectDigits :
          (\/ ~KeyOk(key)
           \/ digit \notin 0 .. (NUMROWS - 1)
           \/ KeySolved(Self, key)) => Rejected(data_clues_ass_sub(Self, key, <<digit>>))
    /\ \A key \in Keys :
          IF KeySolved(Self, key)
          THEN /\ \A set \in ViewSets : Rejected(data_candidates_ass_sub(Self, key, <<set>>))
               /\ Rejected(data_candidates_ass_sub(Self, key, <<>>))
          ELSE Rejected(data_clues_ass_sub(Self, key, <<>>))

\* (0, 0) holds a clue and (0, 1), which holds candidates, does not: the
\* assignments to (0, 0), the digit 9 for (0, 1) and the deletion of the
\* clue of (0, 1) are rejected
C37_Witness ==
    /\ KeySolved(Self, <<0, 0>>)
    /\ ~KeySolved(Self, <<0, 1>>)
    /\ MaskAt(Self, <<0, 1>>) # {}
    /\ data_clues_ass_sub(Self, <<0, 0>>, <<1>>) = [s |-> Self, err |-> "KeyError"]
    /\ data_candidates_ass_sub(Self, <<0, 0>>, << {0} >>) = [s |-> Self, err |-> "KeyError"]
    /\ data_candidates_ass_sub(Self, <<0, 0>>, <<>>) = [s |-> Self, err |-> "KeyError"]
    /\ data_clues_ass_sub(Self, <<0, 1>>, << NUMROWS >>) = [s |-> Self, err |-> "ValueError"]
    /\ data_clues_ass_sub(Self, <<0, 1>>, <<>>) = [s |-> Self, err |-> "KeyError"]
    /\ data_clues_ass_sub(Self, BadKey, <<0>>) = [s |-> Self, err |-> "TypeError"]

\* ------------------------------------------------------------------------
\* Rectangle search on a grid without clues: State({}, dofill), where every
\* cell is unsolved; a few clues and masks are set and find_rectangles is
\* called, and the outcome keeps the number of rectangles written to
\* temp_storage.
MAXRECT == 1296

FullKeys == { <<0, 0>>, <<4, 4>> }

FullSets == { {}, {0} }

FullCands == { PyNone, CandidateSetObject({0}) }

FullCorners == { <<0, 0>>, <<4, 4>>, <<7, 7>> }

InitFull ==
    \E dofill \in BOOLEAN :
        LET r == data_State___init___impl(NewObject, <<>>, dofill)
        IN  /\ r.err = "none"
            /\ ss_solved = r.s.ss_solved
            /\ ss_digits = r.s.ss_digits
            /\ ss_grconfig = r.s.ss_grconfig
            /\ ss_skeys = r.s.ss_skeys
            /\ ss_houses = r.s.ss_houses
            /\ ss_grid = r.s.ss_grid
            /\ last = Call("__init__", "none", <<>>)
            /\ ki = <<>>
            /\ ki_log = NoLog
            /\ ss_movehook = <<>>
            /\ NoSets

FullSetMask ==
    \E key \in FullKeys, set \in FullSets :
        LET r == data_candidates_ass_sub(Self, key, <<set>>)
        IN  /\ r.err = "none"
            /\ Becomes(r.s)
            /\ last' = Call("candidates_setitem", r.err, <<>>)

FullSetClue ==
    \E key \in FullKeys :
        LET r == data_clues_ass_sub(Self, key, <<0>>)
        IN  /\ r.err = "none"
            /\ Becomes(r.s)
            /\ last' = Call("clues_setitem", r.err, <<>>)

\* state.find_rectangles(None, cands); rkey holds found
FullFind ==
    \E cands \in FullCands :
        LET r == data_State_find_rectangles_impl(Self, <<>>, cands)
        IN  /\ last' = Call("find_rectangles", r.err, << Len(r.value) >>)
            /\ SameObject
            /\ UNCHANGED <<ki, ki_log>>

\* state.find_rectangles(key, cands); rkey holds found
FullFindAt ==
    \E key \in FullCorners, cands \in FullCands :
        LET r == data_State_find_rectangles_impl(Self, <<key>>, cands)
        IN  /\ r.err = "none"
            /\ last' = Call("find_rectangles(key)", r.err, << Len(r.value) >>)
            /\ SameObject
            /\ UNCHANGED <<ki, ki_log>>

NextFull ==
    \/ FullSetMask
    \/ FullSetClue
    \/ FullFind
    \/ FullFindAt

SpecFull == InitFull /\ [][NextFull]_vars

\* C40: in every state the number of rectangles a global find_rectangles
\* writes to temp_storage is at most MAXRECT = 1296 (36 pairs of rows times
\* 36 pairs of columns), so that no write goes to an index at or past the
\* capacity of the buffer, and an anchored call writes at most 64.
C40_RectangleBound ==
    /\ last.op = "find_rectangles" =>
          /\ last.rkey[1] <= MAXRECT
          /\ last.rkey[1] <= (((NUMROWS * (NUMROWS - 1)) \div 2) * ((NUMROWS * (NUMROWS - 1)) \div 2))
    /\ last.op = "find_rectangles(key)" =>
          last.rkey[1] <= (NUMROWS - 1) * (NUMROWS - 1)

\* a global find_rectangles on the grid without clues, every cell holding
\* every candidate, has filled temp_storage to its last slot
C40_Witness ==
    /\ last.op = "find_rectangles"
    /\ last.rkey = << MAXRECT >>
    /\ ss_solved = 0

====
